---- MODULE Spec2Model ----
(***************************************************************************)
(* Cross-context orchestration of the MarkSnip extension: the service      *)
(* worker (src/unnamed/part_000), the offscreen document                   *)
(* (src/src/offscreen/offscreen.js) and the popup (src/src/popup/popup.js).*)
(*                                                                         *)
(* The specifications of the module:                                      *)
(*   Spec     download lifecycle tracking (activeDownloads,                *)
(*            markSnipDownloads, markSnipUrls, the platform's events)      *)
(*   SpecReq  correlated request/reply waits (getArticleFromContent in     *)
(*            both contexts, downloadMarkdownFromContext), SpecReqFair     *)
(*            adds the fairness of message delivery and of the timers      *)
(*   SpecBatch the popup's batch conversion loop and "download all tabs", *)
(*            over the request variables and the popup's own               *)
(*            (SpecBatchFair adds the fairness of its steps)               *)
(*   SpecConvert  one conversion: the image manifest of the image rule,    *)
(*            preDownloadImages and the image downloads                    *)
(*   SpecClip one clip request in the Chrome and the Firefox topology      *)
(*   SpecFileName  generateValidFileName                                   *)
(*   SpecTemplate  textReplace, pass by pass                               *)
(*   SpecOptions   convertArticleToMarkdown and the options record         *)
(*   SpecTable     the table rule of turndown                              *)
(*   SpecMatrix    the matrix of the table rule, cell by cell              *)
(*   SpecUri       validateUri                                             *)
(*   SpecOutput    the final text of a Markdown and of an Org conversion   *)
(*   SpecCopy      copyToClipboard, tier by tier                           *)
(*   SpecFence     the two rules that emit fenced code blocks              *)
(*   SpecMenu      a context-menu selection action in both topologies      *)
(*   SpecImageName getImageFilename on base64 data URIs                    *)
(*   SpecMeta      the meta tags getArticleFromDom adds to the article     *)
(*   SpecEnsure    ensureOffscreenDocumentExists under concurrent requests *)
(*   SpecWaits     SpecReq and SpecBatch together: every correlated wait   *)
(* A specification leaves the variables it does not use at their initial   *)
(* value.                                                                  *)
(***************************************************************************)
EXTENDS Integers, Sequences, FiniteSets, TLC

VARIABLES
    \* ---- download lifecycle (Spec) ----
    topology,           \* "chrome" (offscreen document exists) or "firefox"
    offHasDownloads,    \* hasDownloadsAPI as the offscreen document sees it
    job,                \* the download operations in progress, by job number
    downloads,          \* the platform's downloads, by identifier
    activeDownloads,    \* Map id -> url
    markSnipDownloads,  \* Map id -> [filename, url]
    markSnipUrls,       \* Map url -> [filename]
    listeners,          \* handleChange closures added to downloads.onChanged
    swInbox,            \* runtime messages on their way to the service worker
    offInbox,           \* runtime messages on their way to the offscreen document
    revoked,            \* URL.revokeObjectURL calls, in order
    \* ---- correlated requests (SpecReq) ----
    req,                \* the requests in progress, by request number
    swWait,             \* the service worker's pending reply waits, by request
    offWait,            \* the offscreen document's pending reply waits, by request
    rqSW,               \* runtime messages on their way to the service worker
    rqOff,              \* runtime messages on their way to the offscreen document
    \* ---- batches (SpecBatch) ----
    batchMode,          \* "popup", "allTabs", or "none" outside a batch
    tabsLoaded,         \* tabs the popup batch has created and loaded; -1 once loading threw
    popupWait,          \* the popup's display.md waits, by batch item
    rqPopup,            \* runtime messages on their way to the popup
    \* ---- one conversion and its images (SpecConvert) ----
    cvOptions,          \* the options the conversion runs with
    cvNodes,            \* the IMG nodes the converter has still to visit
    imageList,          \* the manifest: source -> filename
    fetched,            \* preDownloadImages: the fetch of each manifest source
    newImageList,       \* preDownloadImages: object URL -> filename
    cvResult,           \* the conversion's promise: "none", "ready" or "failed"
    imgDownload,        \* handleImageDownloads: the download of each manifest entry
    \* ---- one clip request in both topologies (SpecClip) ----
    clipInput,          \* the captured DOM, the selection and the options' clipSelection
    clip,               \* by topology: the message in flight and what the popup shows
    \* ---- generateValidFileName (SpecFileName) ----
    fn,                 \* the arguments of one call and the name it returns
    \* ---- textReplace (SpecTemplate) ----
    tr,                 \* the arguments of one call, the string so far and the pass to run
    \* ---- convertArticleToMarkdown and its options (SpecOptions) ----
    opt,                \* the caller's record, the shared defaults, and the last call
    \* ---- the table rule (SpecTable) ----
    tbl,                \* the table, its matrix and column widths, and the markdown
    \* ---- the matrix of the table rule, cell by cell (SpecMatrix) ----
    mx,                 \* the rows, the cells placed so far, the matrix and the widths
    \* ---- validateUri (SpecUri) ----
    uri,                \* the arguments of one call and the text it returns
    \* ---- the final text of a conversion (SpecOutput) ----
    out,                \* the article, the options and the text returned
    \* ---- copyToClipboard (SpecCopy) ----
    cb,                 \* the text, what the document offers, the tiers tried and the result
    \* ---- fenced code blocks (SpecFence) ----
    fc,                 \* the PRE node's code and the block emitted for it
    \* ---- a context-menu selection action in both topologies (SpecMenu) ----
    cm,                 \* the page, the menu item and, by topology, the step and the content converted
    \* ---- getImageFilename on data URIs (SpecImageName) ----
    inm,                \* the arguments of one call and the name it returns
    \* ---- the meta tags of getArticleFromDom (SpecMeta) ----
    md,                 \* the article as parsed, the article so far and the meta tags still to visit
    \* ---- ensureOffscreenDocumentExists under concurrent requests (SpecEnsure) ----
    oc                  \* the offscreen document, each caller's step and the creations attempted

dlVars == <<topology, offHasDownloads, job, downloads, activeDownloads,
            markSnipDownloads, markSnipUrls, listeners, swInbox, offInbox,
            revoked>>

reqVars == <<req, swWait, offWait, rqSW, rqOff>>

batchVars == <<batchMode, tabsLoaded, popupWait, rqPopup>>

orchVars == <<dlVars, reqVars, batchVars>>

cvVars == <<cvOptions, cvNodes, imageList, fetched, newImageList, cvResult, imgDownload>>

clipVars == <<clipInput, clip>>

\* The variables of the specifications of single operations.
pureVars == <<cvVars, clipVars, fn, tr, opt, tbl, mx, uri, out, cb, fc, cm, inm, md, oc>>

notCvVars == <<orchVars, clipVars, fn, tr, opt, tbl, mx, uri, out, cb, fc, cm, inm, md, oc>>

notClipVars == <<orchVars, cvVars, fn, tr, opt, tbl, mx, uri, out, cb, fc, cm, inm, md, oc>>

notFnVars == <<orchVars, cvVars, clipVars, tr, opt, tbl, mx, uri, out, cb, fc, cm, inm, md, oc>>

notTrVars == <<orchVars, cvVars, clipVars, fn, opt, tbl, mx, uri, out, cb, fc, cm, inm, md, oc>>

notOptVars == <<orchVars, cvVars, clipVars, fn, tr, tbl, mx, uri, out, cb, fc, cm, inm, md, oc>>

notTblVars == <<orchVars, cvVars, clipVars, fn, tr, opt, mx, uri, out, cb, fc, cm, inm, md, oc>>

notMxVars == <<orchVars, cvVars, clipVars, fn, tr, opt, tbl, uri, out, cb, fc, cm, inm, md, oc>>

notUriVars == <<orchVars, cvVars, clipVars, fn, tr, opt, tbl, mx, out, cb, fc, cm, inm, md, oc>>

notOutVars == <<orchVars, cvVars, clipVars, fn, tr, opt, tbl, mx, uri, cb, fc, cm, inm, md, oc>>

notCbVars == <<orchVars, cvVars, clipVars, fn, tr, opt, tbl, mx, uri, out, fc, cm, inm, md, oc>>

notFcVars == <<orchVars, cvVars, clipVars, fn, tr, opt, tbl, mx, uri, out, cb, cm, inm, md, oc>>

notCmVars == <<orchVars, cvVars, clipVars, fn, tr, opt, tbl, mx, uri, out, cb, fc, inm, md, oc>>

notInmVars == <<orchVars, cvVars, clipVars, fn, tr, opt, tbl, mx, uri, out, cb, fc, cm, md, oc>>

notMdVars == <<orchVars, cvVars, clipVars, fn, tr, opt, tbl, mx, uri, out, cb, fc, cm, inm, oc>>

notOcVars == <<orchVars, cvVars, clipVars, fn, tr, opt, tbl, mx, uri, out, cb, fc, cm, inm, md>>

vars == <<orchVars, pureVars>>

\* ---------------------------------------------------------------- bounds
MaxJobs == 2
MaxReqs == 2
MaxTabs == 2
MaxImages == 3

\* ---------------------------------------------------------------- maps
EmptyMap == [x \in {} |-> 0]

MapHas(m, k) == k \in DOMAIN m

MapSet(m, k, v) == [x \in (DOMAIN m) \cup {k} |-> IF x = k THEN v ELSE m[x]]

MapDelete(m, k) == [x \in (DOMAIN m) \ {k} |-> m[x]]

\* ---------------------------------------------------------------- URLs
\* A URL is <<scheme, n>>; String.startsWith looks at the scheme only.
BlobExt == "blob:chrome-extension://"
BlobMoz == "blob:moz-extension://"
Https == "https://"
NoUrl == <<"", 0>>

BlobWeb == "blob:https://"

StartsWithBlob(url) == url[1] \in {BlobExt, BlobMoz, BlobWeb}

StartsWithBlobChromeExtension(url) == url[1] = BlobExt

Filename(j) == <<"file", j>>

\* ---------------------------------------------------------------- jobs
NoJob == [kind |-> "none", pc |-> "idle", url |-> NoUrl, id |-> 0,
          tracked |-> FALSE, threw |-> FALSE, delivered |-> "none",
          attempts |-> <<>>]

\* The platform's identifiers are unique and otherwise arbitrary: the download
\* of job j gets the identifier j.  A download's entry also keeps how the
\* onDeterminingFilename hook answered for it.
NoDownload == [url |-> NoUrl, state |-> "none", asked |-> FALSE,
               idTracked |-> FALSE, urlTracked |-> FALSE, answers |-> <<>>]

\* Jobs start in order of their number.
Idle(j) == job[j].pc = "idle" /\ (IF j = 1 THEN TRUE ELSE job[j - 1].pc # "idle")

InitDownloads ==
    /\ topology \in {"chrome", "firefox"}
    /\ offHasDownloads \in BOOLEAN
    /\ topology = "firefox" => ~offHasDownloads
    /\ job = [j \in 1..MaxJobs |-> NoJob]
    /\ downloads = [id \in 1..MaxJobs |-> NoDownload]
    /\ activeDownloads = EmptyMap
    /\ markSnipDownloads = EmptyMap
    /\ markSnipUrls = EmptyMap
    /\ listeners = {}
    /\ swInbox = <<>>
    /\ offInbox = <<>>
    /\ revoked = <<>>

\* ------------------------------------------------ offscreen: downloadMarkdown
\* The offscreen document's downloadMarkdown up to its first await: the branch
\* is chosen by options.downloadMode and hasDownloadsAPI.
OffscreenDownloadMarkdown(j) ==
    /\ topology = "chrome"
    /\ Idle(j)
    /\ \E downloadsApiMode \in BOOLEAN :
         LET kind == IF ~downloadsApiMode THEN "contentLink"
                     ELSE IF offHasDownloads THEN "worker" ELSE "swBlob"
             url == IF downloadsApiMode THEN <<BlobExt, j>> ELSE NoUrl
             type == CASE kind = "worker" -> "track-download-url"
                       [] kind = "swBlob" -> "service-worker-download"
                       [] OTHER -> "execute-content-download"
             started == [NoJob EXCEPT !.kind = kind, !.pc = "sent", !.url = url]
         IN  /\ job' = [job EXCEPT ![j] = started]
             /\ swInbox' = Append(swInbox,
                    [type |-> type, target |-> "", url |-> url, id |-> 0, job |-> j])
    /\ UNCHANGED <<reqVars, batchVars, pureVars>>
    /\ UNCHANGED <<topology, offHasDownloads, downloads, activeDownloads,
                   markSnipDownloads, markSnipUrls, listeners, offInbox,
                   revoked>>

\* The offscreen document delegates the images of a document whose markdown
\* download it started (download-images); src is a pre-downloaded blob URL or
\* the image's own URL.
OffscreenDelegateImages(j) ==
    /\ topology = "chrome" /\ offHasDownloads
    /\ Idle(j)
    /\ \E scheme \in {BlobExt, Https} :
         /\ job' = [job EXCEPT ![j] =
                [NoJob EXCEPT !.kind = "imgMsg", !.pc = "sent", !.url = <<scheme, j>>]]
         /\ swInbox' = Append(swInbox,
                [type |-> "download-images", target |-> "", url |-> <<scheme, j>>,
                 id |-> 0, job |-> j])
    /\ UNCHANGED <<reqVars, batchVars, pureVars>>
    /\ UNCHANGED <<topology, offHasDownloads, downloads, activeDownloads,
                   markSnipDownloads, markSnipUrls, listeners, offInbox,
                   revoked>>

\* ------------------------------------------- service worker: tracking maps
\* The service worker's mutable state a handler reads and writes, as one record:
\* the three maps, the onChanged listeners and the messages it has sent.
SW == [active |-> activeDownloads, msd |-> markSnipDownloads,
       msu |-> markSnipUrls, lst |-> listeners, out |-> offInbox]

SetSW(S) ==
    /\ activeDownloads' = S.active
    /\ markSnipDownloads' = S.msd
    /\ markSnipUrls' = S.msu
    /\ listeners' = S.lst
    /\ offInbox' = S.out

\* markSnipUrls.set(url, {filename, ...})
TrackUrl(S, url, filename) ==
    [S EXCEPT !.msu = MapSet(@, url, [filename |-> filename])]

\* "Move from URL tracking to ID tracking"
MoveUrlToId(S, url, id) ==
    IF MapHas(S.msu, url)
    THEN [S EXCEPT !.msd = MapSet(@, id, [filename |-> S.msu[url].filename,
                                          url |-> url]),
                   !.msu = MapDelete(@, url)]
    ELSE S

\* markSnipDownloads.set(imgId, {filename, isImage, url})
TrackId(S, id, url, filename) ==
    [S EXCEPT !.msd = MapSet(@, id, [filename |-> filename, url |-> url])]

\* browser.runtime.sendMessage({type: 'cleanup-blob-url', url}): no target field.
SendCleanup(S, url) ==
    [S EXCEPT !.out = Append(@, [type |-> "cleanup-blob-url", target |-> "",
                                 url |-> url, id |-> 0, job |-> 0])]

\* downloadListener(id, url): records the download and returns handleChange,
\* which the caller adds to downloads.onChanged.
downloadListener(S, id, url) ==
    [S EXCEPT !.active = MapSet(@, id, url), !.lst = @ \cup {<<id, url>>}]

\* The closure handleChange(delta) of downloadListener(l[1], l[2]).
handleChange(S, l, delta) ==
    IF delta.id = l[1] /\ delta.state = "complete"
    THEN LET S1 == IF StartsWithBlobChromeExtension(l[2])
                   THEN SendCleanup(S, l[2]) ELSE S
         IN  [S1 EXCEPT !.active = MapDelete(@, l[1]),
                        !.msd = MapDelete(@, l[1])]
    ELSE S

handleDownloadChange(S, delta) ==
    LET S1 ==
          IF MapHas(S.active, delta.id) /\ delta.state \in {"complete", "interrupted"}
          THEN LET url == S.active[delta.id]
                   S0 == IF StartsWithBlobChromeExtension(url)
                         THEN SendCleanup(S, url) ELSE S
               IN  [S0 EXCEPT !.active = MapDelete(@, delta.id),
                              !.msd = MapDelete(@, delta.id)]
          ELSE S
    IN  \* "Also clean up any remaining URL tracking"
        IF MapHas(S1.msd, delta.id) /\ MapHas(S1.msu, S1.msd[delta.id].url)
        THEN [S1 EXCEPT !.msu = MapDelete(@, S1.msd[delta.id].url)]
        ELSE S1

handleDownloadComplete(S, message) ==
    IF message.id # 0 /\ message.url # NoUrl
    THEN [S EXCEPT !.active = MapSet(@, message.id, message.url)]
    ELSE S

\* The answer of the onDeterminingFilename hook: the arguments of its calls of
\* suggest, in order.  NoOverride is suggest() without an argument.
NoOverride == [filename |-> <<"", 0>>, conflictAction |-> ""]

\* The hook with the `else` after its first branch lost: a tracked download is
\* answered with the override and then again with suggest().
handleFilenameConflictFallsThrough(S, downloadItem) ==
    IF MapHas(S.msd, downloadItem.id)
    THEN <<[filename |-> S.msd[downloadItem.id].filename,
            conflictAction |-> "uniquify"], NoOverride>>
    ELSE <<NoOverride>>

handleFilenameConflict(S, downloadItem) ==
    LET isMarkSnipDownload == MapHas(S.msd, downloadItem.id)
                              \/ (downloadItem.url # NoUrl
                                  /\ StartsWithBlob(downloadItem.url))
    IN  IF isMarkSnipDownload /\ MapHas(S.msd, downloadItem.id)
        THEN <<[filename |-> S.msd[downloadItem.id].filename,
                conflictAction |-> "uniquify"]>>
        ELSE IF isMarkSnipDownload
        THEN <<NoOverride>>
        ELSE <<NoOverride>>

\* ------------------------------------------- service worker: handleMessages
\* One runtime message, handled up to the handler's first await of the platform.
\* A message the switch has no case for falls through.
SWHandleMessages ==
    /\ swInbox # <<>>
    /\ LET m == Head(swInbox)
           j == m.job
       IN
       /\ swInbox' = Tail(swInbox)
       /\ \E scriptOk \in BOOLEAN :
            CASE m.type = "track-download-url" ->
                   \* the offscreen document's await returns and it calls download
                   /\ scriptOk
                   /\ SetSW(TrackUrl(SW, m.url, Filename(j)))
                   /\ job' = [job EXCEPT ![j].pc = "calling", ![j].tracked = TRUE,
                                         ![j].attempts = Append(@, "downloadsApi")]
              [] m.type = "download-complete" ->
                   /\ scriptOk
                   /\ SetSW(handleDownloadComplete(SW, m))
                   /\ job' = [job EXCEPT ![j].pc = "end"]
              [] m.type = "download-images" ->
                   \* handleImageDownloads, one image, up to the download call
                   /\ scriptOk
                   /\ SetSW(IF StartsWithBlob(m.url)
                            THEN TrackUrl(SW, m.url, Filename(j)) ELSE SW)
                   /\ job' = [job EXCEPT ![j].pc = "calling",
                                         ![j].tracked = StartsWithBlob(m.url),
                                         ![j].attempts = Append(@, "downloadsApi")]
              [] m.type = "service-worker-download" ->
                   \* handleDownloadWithBlobUrl up to the download call
                   /\ scriptOk
                   /\ SetSW(TrackUrl(SW, m.url, Filename(j)))
                   /\ job' = [job EXCEPT ![j].pc = "calling", ![j].tracked = TRUE,
                                         ![j].attempts = Append(@, "workerBlob")]
              [] m.type = "offscreen-download-failed" ->
                   \* "Legacy fallback - shouldn't be used anymore": logged only
                   /\ scriptOk
                   /\ SetSW(SW)
                   /\ job' = [job EXCEPT ![j].pc = "end"]
              [] m.type = "execute-content-download" ->
                   \* executeContentDownload: the link click in the page, or the
                   \* script's failure, caught and logged
                   /\ SetSW(SW)
                   /\ job' = [job EXCEPT ![j].pc = "end",
                                         ![j].attempts = Append(@, "contentLink"),
                                         ![j].delivered =
                                             IF scriptOk THEN "contentLink" ELSE "none"]
              [] m.type = "cleanup-blob-url" ->
                   /\ scriptOk
                   /\ SetSW([SW EXCEPT !.out = Append(@, [m EXCEPT !.target = "offscreen"])])
                   /\ job' = job
              [] OTHER ->
                   /\ scriptOk
                   /\ SetSW(SW)
                   /\ job' = job
    /\ UNCHANGED <<reqVars, batchVars, pureVars>>
    /\ UNCHANGED <<topology, offHasDownloads, downloads, revoked>>

\* The service worker's own downloadMarkdown where there is no offscreen
\* document: the Downloads API branch up to the download call, or the content
\* link branch.
DownloadMarkdown(j) ==
    /\ topology = "firefox"
    /\ Idle(j)
    /\ \E downloadsApiMode \in BOOLEAN, scriptOk \in BOOLEAN :
         IF downloadsApiMode
         THEN /\ scriptOk
              /\ SetSW(TrackUrl(SW, <<BlobMoz, j>>, Filename(j)))
              /\ job' = [job EXCEPT ![j] =
                    [NoJob EXCEPT !.kind = "swDirect", !.pc = "calling",
                                  !.url = <<BlobMoz, j>>, !.tracked = TRUE,
                                  !.attempts = <<"downloadsApi">>]]
         ELSE /\ SetSW(SW)
              /\ job' = [job EXCEPT ![j] =
                    [NoJob EXCEPT !.kind = "contentLink", !.pc = "end",
                                  !.attempts = <<"contentLink">>,
                                  !.delivered =
                                      IF scriptOk THEN "contentLink" ELSE "none"]]
    /\ UNCHANGED <<reqVars, batchVars, pureVars>>
    /\ UNCHANGED <<topology, offHasDownloads, downloads, swInbox, revoked>>

\* handleImageDownloadsDirectly, one image, up to the download call.
HandleImageDownloadsDirectly(j) ==
    /\ ~offHasDownloads
    /\ Idle(j)
    /\ \E scheme \in {BlobExt, Https} :
         /\ scheme = BlobExt => topology = "chrome"
         /\ job' = [job EXCEPT ![j] =
                [NoJob EXCEPT !.kind = "imgDirect", !.pc = "calling",
                              !.url = <<scheme, j>>,
                              !.attempts = <<"downloadsApi">>]]
    /\ UNCHANGED <<reqVars, batchVars, pureVars>>
    /\ UNCHANGED <<topology, offHasDownloads, downloads, activeDownloads,
                   markSnipDownloads, markSnipUrls, listeners, swInbox, offInbox,
                   revoked>>

\* ------------------------------------------------------------- the platform
\* downloads.download({url, filename, saveAs}): the platform accepts the
\* download and assigns the next identifier, or the call throws.
PlatformDownload(j) ==
    /\ job[j].pc = "calling"
    /\ \E accepted \in BOOLEAN :
         IF accepted
         THEN /\ downloads' = [downloads EXCEPT ![j] =
                    [NoDownload EXCEPT !.url = job[j].url, !.state = "in_progress"]]
              /\ job' = [job EXCEPT ![j].pc = "accepted", ![j].id = j,
                                    ![j].delivered = "downloadsApi"]
         ELSE /\ downloads' = downloads
              /\ job' = [job EXCEPT ![j].pc = "threw", ![j].threw = TRUE]
    /\ UNCHANGED <<reqVars, batchVars, pureVars>>
    /\ UNCHANGED <<topology, offHasDownloads, activeDownloads, markSnipDownloads,
                   markSnipUrls, listeners, swInbox, offInbox, revoked>>

\* A download started by the user, a page or another extension.
PlatformForeignDownload(j) ==
    /\ Idle(j)
    /\ \E scheme \in {BlobWeb, Https} :
         /\ downloads' = [downloads EXCEPT ![j] =
                [NoDownload EXCEPT !.url = <<scheme, j>>, !.state = "in_progress"]]
         /\ job' = [job EXCEPT ![j] =
                [NoJob EXCEPT !.kind = "foreign", !.pc = "end",
                              !.url = <<scheme, j>>, !.id = j]]
    /\ UNCHANGED <<reqVars, batchVars, pureVars>>
    /\ UNCHANGED <<topology, offHasDownloads, activeDownloads, markSnipDownloads,
                   markSnipUrls, listeners, swInbox, offInbox, revoked>>

\* --------------------------------------------- after the download call returns
\* offscreen.js downloadMarkdown after `await downloadsAPI.download`: the
\* download-complete notification, or the catch block's
\* offscreen-download-failed.
OffscreenDownloadMarkdownResume(j) ==
    /\ job[j].kind = "worker"
    /\ job[j].pc \in {"accepted", "threw"}
    /\ swInbox' = Append(swInbox,
            [type |-> IF job[j].pc = "accepted" THEN "download-complete"
                      ELSE "offscreen-download-failed",
             target |-> "", url |-> job[j].url, id |-> job[j].id, job |-> j])
    /\ job' = [job EXCEPT ![j].pc = "sent"]
    /\ UNCHANGED <<reqVars, batchVars, pureVars>>
    /\ UNCHANGED <<topology, offHasDownloads, downloads, activeDownloads,
                   markSnipDownloads, markSnipUrls, listeners, offInbox,
                   revoked>>

\* handleDownloadWithBlobUrl after `await downloadsAPI.download`: the move to
\* identifier tracking and the cleanup listener, or the catch block's link click
\* on the blob URL in the page.
HandleDownloadWithBlobUrlResume(j) ==
    /\ job[j].kind = "swBlob"
    /\ job[j].pc \in {"accepted", "threw"}
    /\ \E scriptOk \in BOOLEAN :
         IF job[j].pc = "accepted"
         THEN /\ scriptOk
              /\ SetSW(downloadListener(MoveUrlToId(SW, job[j].url, job[j].id),
                                        job[j].id, job[j].url))
              /\ job' = [job EXCEPT ![j].pc = "end"]
         ELSE /\ SetSW(SW)
              /\ job' = [job EXCEPT ![j].pc = "end",
                                    ![j].attempts = Append(@, "contentLink"),
                                    ![j].delivered =
                                        IF scriptOk THEN "contentLink" ELSE "none"]
    /\ UNCHANGED <<reqVars, batchVars, pureVars>>
    /\ UNCHANGED <<topology, offHasDownloads, downloads, swInbox, revoked>>

\* The service worker's downloadMarkdown after `await downloadsAPI.download`;
\* its catch block logs "Downloads API failed".
DownloadMarkdownResume(j) ==
    /\ job[j].kind = "swDirect"
    /\ job[j].pc \in {"accepted", "threw"}
    /\ SetSW(IF job[j].pc = "accepted"
             THEN downloadListener(MoveUrlToId(SW, job[j].url, job[j].id),
                                   job[j].id, job[j].url)
             ELSE SW)
    /\ job' = [job EXCEPT ![j].pc = "end"]
    /\ UNCHANGED <<reqVars, batchVars, pureVars>>
    /\ UNCHANGED <<topology, offHasDownloads, downloads, swInbox, revoked>>

\* handleImageDownloads after `await browser.downloads.download`.
HandleImageDownloadsResume(j) ==
    /\ job[j].kind = "imgMsg"
    /\ job[j].pc \in {"accepted", "threw"}
    /\ SetSW(IF job[j].pc = "accepted"
             THEN LET S1 == [SW EXCEPT !.active = MapSet(@, job[j].id, job[j].url)]
                  IN  IF ~StartsWithBlob(job[j].url)
                      THEN TrackId(S1, job[j].id, job[j].url, Filename(j))
                      ELSE S1
             ELSE SW)
    /\ job' = [job EXCEPT ![j].pc = "end"]
    /\ UNCHANGED <<reqVars, batchVars, pureVars>>
    /\ UNCHANGED <<topology, offHasDownloads, downloads, swInbox, revoked>>

\* handleImageDownloadsDirectly after `await browser.downloads.download`.
HandleImageDownloadsDirectlyResume(j) ==
    /\ job[j].kind = "imgDirect"
    /\ job[j].pc \in {"accepted", "threw"}
    /\ SetSW(IF job[j].pc = "accepted"
             THEN downloadListener(TrackId(SW, job[j].id, job[j].url, Filename(j)),
                                   job[j].id, job[j].url)
             ELSE SW)
    /\ job' = [job EXCEPT ![j].pc = "end"]
    /\ UNCHANGED <<reqVars, batchVars, pureVars>>
    /\ UNCHANGED <<topology, offHasDownloads, downloads, swInbox, revoked>>

\* ------------------------------------------------------- the platform's events
\* downloads.onDeterminingFilename, once per download while it is in progress.
OnDeterminingFilename(id) ==
    /\ topology = "chrome"
    /\ downloads[id].state = "in_progress"
    /\ ~downloads[id].asked
    /\ downloads' = [downloads EXCEPT ![id] =
            [@ EXCEPT !.asked = TRUE,
                      !.idTracked = MapHas(markSnipDownloads, id),
                      !.urlTracked = MapHas(markSnipUrls, downloads[id].url),
                      !.answers = handleFilenameConflict(SW,
                                     [id |-> id, url |-> downloads[id].url])]]
    /\ UNCHANGED <<reqVars, batchVars, pureVars>>
    /\ UNCHANGED <<topology, offHasDownloads, job, activeDownloads,
                   markSnipDownloads, markSnipUrls, listeners, swInbox, offInbox,
                   revoked>>

\* The listeners of downloads.onChanged in the order they were added:
\* handleDownloadChange first, then the handleChange closures.
RECURSIVE RunListeners(_, _, _)
RunListeners(S, ls, delta) ==
    IF ls = {} THEN S
    ELSE LET l == CHOOSE x \in ls : \A y \in ls : x[1] <= y[1]
         IN  RunListeners(handleChange(S, l, delta), ls \ {l}, delta)

\* downloads.onChanged with a state delta: the download ends complete or
\* interrupted.  The platform answers the download call when the download is
\* created, so the caller has resumed before the download ends.
OnChanged(id) ==
    /\ downloads[id].state = "in_progress"
    /\ job[id].pc # "accepted"
    /\ \E st \in {"complete", "interrupted"} :
         /\ downloads' = [downloads EXCEPT ![id].state = st]
         /\ LET delta == [id |-> id, state |-> st]
            IN  SetSW(RunListeners(handleDownloadChange(SW, delta), listeners, delta))
    /\ UNCHANGED <<reqVars, batchVars, pureVars>>
    /\ UNCHANGED <<topology, offHasDownloads, job, swInbox, revoked>>

\* ------------------------------------------- offscreen document: handleMessages
\* A message without target 'offscreen' is not for this context
\* (article-dom-data apart, which the request specification models).
OffscreenHandleMessages ==
    /\ offInbox # <<>>
    /\ LET m == Head(offInbox)
       IN  /\ offInbox' = Tail(offInbox)
           /\ revoked' = IF m.target = "offscreen" /\ m.type = "cleanup-blob-url"
                         THEN Append(revoked, m.url)
                         ELSE revoked
    /\ UNCHANGED <<reqVars, batchVars, pureVars>>
    /\ UNCHANGED <<topology, offHasDownloads, job, downloads, activeDownloads,
                   markSnipDownloads, markSnipUrls, listeners, swInbox>>

\* ================================================================ requests
\* A reply wait: the promise, its one-shot listener and its timer.  field/key is
\* what the listener compares (message.requestId or message.tabId); by is the
\* request whose reply settled the promise (-1: the timer), calls the resolve
\* and reject calls made, late whether a matching message came with the listener
\* gone.
NoWait == [type |-> "", field |-> "", key |-> 0, registered |-> FALSE,
           timer |-> "none", state |-> "unused", by |-> 0, calls |-> <<>>,
           late |-> FALSE]

NoReq == [kind |-> "none", tab |-> 0, pc |-> "idle", sent |-> FALSE,
          off |-> "none", offSent |-> FALSE, outcome |-> "none",
          captureFailed |-> FALSE]

InitRequests ==
    /\ req = [r \in 1..MaxReqs |-> NoReq]
    /\ swWait = [r \in 1..MaxReqs |-> NoWait]
    /\ offWait = [r \in 1..MaxReqs |-> NoWait]
    /\ rqSW = <<>>
    /\ rqOff = <<>>
    /\ popupWait = [r \in 1..MaxReqs |-> NoWait]
    /\ tabsLoaded = 0
    /\ rqPopup = <<>>

\* ============================================= one conversion and its images
\* An image source is <<host, filename parts>>: the filename after the last
\* slash, split at its dots.  Host "" is a relative reference.
BaseHost == "h1"

ImgSrcs ==
    { <<"h1", <<"a", "png">>>>, <<"h2", <<"a", "png">>>>, <<"", <<"a", "png">>>>,
      <<"h1", <<"a", "1", "png">>>>, <<"h2", <<"a">>>> }

\* validateUri: a relative reference is resolved against the article's base.
validateUri(href) == IF href[1] = "" THEN <<BaseHost, href[2]>> ELSE href

\* getImageFilename: the name after the last slash; ".idunno" when it has no
\* extension.
getImageFilename(src) ==
    IF Len(src[2]) = 1 THEN Append(src[2], "idunno") ELSE src[2]

Range(f) == {f[x] : x \in DOMAIN f}

\* The decimal text of the counter i.
Numeral(i) == <<"1", "2", "3", "4", "5", "6", "7", "8", "9">>[i]

\* The while loop of the image rules: parts.splice(length - 1, 0, i++) the
\* first time, parts.splice(length - 2, 1, i++) after it, until no manifest
\* value is equal.
RECURSIVE Disambiguate(_, _, _)
Disambiguate(values, parts, i) ==
    IF parts \notin values THEN parts
    ELSE Disambiguate(values,
                      IF i = 1
                      THEN SubSeq(parts, 1, Len(parts) - 1) \o <<Numeral(i)>> \o <<parts[Len(parts)]>>
                      ELSE [parts EXCEPT ![Len(parts) - 1] = Numeral(i)],
                      i + 1)

\* The manifest key of a node: the Org rule validates the source first.
ManifestKey(src) ==
    IF cvOptions.outputFormat = "org" THEN validateUri(src) ELSE src

\* The manifest after the image rule has seen one more node.
imagesRule(list, src) ==
    LET key == ManifestKey(src)
        imageFilename == getImageFilename(key)
    IN  IF ~MapHas(list, key) \/ list[key] # imageFilename
        THEN MapSet(list, key, Disambiguate(Range(list), imageFilename, 1))
        ELSE list

CvAtRest ==
    /\ cvOptions = [downloadImages |-> FALSE, downloadMode |-> "downloadsApi", outputFormat |-> "markdown"]
    /\ cvNodes = <<>>
    /\ imageList = EmptyMap
    /\ fetched = EmptyMap
    /\ newImageList = EmptyMap
    /\ cvResult = "none"
    /\ imgDownload = EmptyMap

Topologies == {"chrome", "firefox"}

NoMessage == [type |-> "none"]

ClipAtRest ==
    /\ clipInput = [dom |-> "", selection |-> "", clipSelection |-> FALSE, convertOk |-> TRUE]
    /\ clip = [t \in Topologies |->
                [pc |-> "idle", message |-> NoMessage, failed |-> FALSE,
                 popup |-> [spinner |-> TRUE, editor |-> <<"none">>]]]

FnAtRest == fn = [title |-> <<>>, disallowedChars |-> <<>>, pc |-> "call", name |-> <<>>]

TrAtRest ==
    tr = [template |-> <<>>, article |-> <<>>, disallowedChars |-> <<>>,
          string |-> <<>>, pc |-> "keys"]

OptAtRest == opt = [calls |-> 0]

TblAtRest == tbl = [pc |-> "rows"]

MxAtRest == mx = [placed |-> 0]

UriAtRest == uri = [pc |-> "call"]

OutAtRest == out = [pc |-> "call"]

CbAtRest == cb = [pc |-> "call"]

FcAtRest == fc = [pc |-> "call"]

CmAtRest == cm = [pc |-> "call"]

InmAtRest == inm = [pc |-> "call"]

MdAtRest == md = [pc |-> "call"]

OcAtRest == oc = [pc |-> "call"]

\* Every specification of a single operation but the named one is at rest.
AtRest(x) ==
    /\ IF x = "convert" THEN TRUE ELSE CvAtRest
    /\ IF x = "clip" THEN TRUE ELSE ClipAtRest
    /\ IF x = "fileName" THEN TRUE ELSE FnAtRest
    /\ IF x = "template" THEN TRUE ELSE TrAtRest
    /\ IF x = "options" THEN TRUE ELSE OptAtRest
    /\ IF x = "table" THEN TRUE ELSE TblAtRest
    /\ IF x = "matrix" THEN TRUE ELSE MxAtRest
    /\ IF x = "uri" THEN TRUE ELSE UriAtRest
    /\ IF x = "output" THEN TRUE ELSE OutAtRest
    /\ IF x = "copy" THEN TRUE ELSE CbAtRest
    /\ IF x = "fence" THEN TRUE ELSE FcAtRest
    /\ IF x = "menu" THEN TRUE ELSE CmAtRest
    /\ IF x = "imageName" THEN TRUE ELSE InmAtRest
    /\ IF x = "meta" THEN TRUE ELSE MdAtRest
    /\ IF x = "ensure" THEN TRUE ELSE OcAtRest

PureAtRest == AtRest("")

OrchestrationAtRest ==
    /\ InitDownloads
    /\ topology = "chrome"
    /\ offHasDownloads
    /\ InitRequests
    /\ batchMode = "none"

Settled(w) == w.state \in {"resolved", "rejected"}

\* A runtime message; forReq is the request on whose behalf it was sent.
ReqMsg(type, target, requestId, tabId, error, action, forReq) ==
    [type |-> type, target |-> target, requestId |-> requestId, tabId |-> tabId,
     error |-> error, action |-> action, forReq |-> forReq]

\* The ids generateRequestId and the offscreen document draw are unique per
\* call; the request number stands for them.
generateRequestId(r) == r

\* resolve(...) or reject(...) of a promise: only the first call settles it.
Settle(w, outcome, who, how) ==
    [w EXCEPT !.calls = Append(@, how),
              !.state = IF w.state = "pending" THEN outcome ELSE @,
              !.by = IF w.state = "pending" THEN who ELSE @]

\* The promise executor: listener added, 30 s timer armed.
NewWaitNoTimer(type, field, key) ==
    [NoWait EXCEPT !.type = type, !.field = field, !.key = key,
                   !.registered = TRUE, !.state = "pending"]

\* The promise executor without its addListener call.
NewWaitNoListener(type, field, key) ==
    [NoWait EXCEPT !.type = type, !.field = field, !.key = key,
                   !.timer = "armed", !.state = "pending"]

NewWait(type, field, key) ==
    [NoWait EXCEPT !.type = type, !.field = field, !.key = key,
                   !.registered = TRUE, !.timer = "armed", !.state = "pending"]

Matches(w, message) ==
    /\ message.type = w.type
    /\ IF w.field = "tabId" THEN message.tabId = w.key
                            ELSE message.requestId = w.key

\* The one-shot listener of a wait, called with every message that reaches its
\* context while it is registered.
messageListener(w, message) ==
    IF Matches(w, message)
    THEN Settle([w EXCEPT !.registered = FALSE],
                IF message.error THEN "rejected" ELSE "resolved",
                message.forReq, "reply")
    ELSE w

\* The timer callback keeps the listener registered.
timeoutCallbackKeepsListener(w) ==
    Settle([w EXCEPT !.timer = "fired"], "rejected", -1, "timeout")

\* The timer callback: removeListener, reject.  The timer is never cleared, so
\* it also runs after a reply.
timeoutCallback(w) ==
    Settle([w EXCEPT !.registered = FALSE, !.timer = "fired"],
           "rejected", -1, "timeout")

\* onMessage dispatch to the waits of one context.
Dispatch(waits, message) ==
    [r \in 1..MaxReqs |->
        IF waits[r].registered THEN messageListener(waits[r], message)
        ELSE IF waits[r].state # "unused" /\ Matches(waits[r], message)
             THEN [waits[r] EXCEPT !.late = TRUE]
             ELSE waits[r]]

\* No wait compares the tab of these calls; one tab stands for all.
AnyTab == 0

IdleReq(r) == req[r].pc = "idle" /\ (IF r = 1 THEN TRUE ELSE req[r - 1].pc # "idle")

\* Service worker getArticleFromContent, Chrome branch, up to the send.
GetArticleFromContent(r) ==
    /\ IdleReq(r)
    /\ req' = [req EXCEPT ![r] = [NoReq EXCEPT !.kind = "swArticle", !.tab = AnyTab, !.pc = "waiting"]]
    /\ swWait' = [swWait EXCEPT ![r] = NewWait("article-result", "requestId", generateRequestId(r))]
    /\ rqOff' = Append(rqOff, ReqMsg("get-article-content", "offscreen", generateRequestId(r), AnyTab, FALSE, "", r))
    /\ UNCHANGED <<offWait, rqSW>>
    /\ UNCHANGED <<dlVars, pureVars>>
    /\ UNCHANGED batchVars

\* downloadMarkdownFromContext, Chrome branch, up to the send; ensureScripts
\* may throw before anything is sent.
downloadMarkdownFromContext(r, tab, scriptsOk) ==
    /\ IF scriptsOk
       THEN /\ req' = [req EXCEPT ![r] = [NoReq EXCEPT !.kind = "ctxDownload", !.tab = tab, !.pc = "waiting"]]
            /\ swWait' = [swWait EXCEPT ![r] = NewWait("process-complete", "tabId", tab)]
            /\ rqOff' = Append(rqOff, ReqMsg("process-context-menu", "offscreen", 0, tab, FALSE, "download", r))
       ELSE /\ req' = [req EXCEPT ![r] = [NoReq EXCEPT !.kind = "ctxDownload", !.tab = tab, !.pc = "done", !.outcome = "rejected"]]
            /\ UNCHANGED <<swWait, rqOff>>
    /\ UNCHANGED <<offWait, rqSW>>
    /\ UNCHANGED <<dlVars, pureVars>>
    /\ UNCHANGED batchVars

\* The context menu's download entry is clicked on some tab.
ContextMenuDownload(r) ==
    /\ IdleReq(r)
    /\ \E tab \in 1..MaxTabs, scriptsOk \in BOOLEAN :
        downloadMarkdownFromContext(r, tab, scriptsOk)

\* copyMarkdownFromContext, Chrome branch: the offscreen document does the rest.
copyMarkdownFromContext(r) ==
    /\ IdleReq(r)
    /\ req' = [req EXCEPT ![r] = [NoReq EXCEPT !.kind = "ctxCopy", !.tab = AnyTab, !.pc = "waiting"]]
    /\ rqOff' = Append(rqOff, ReqMsg("process-context-menu", "offscreen", 0, AnyTab, FALSE, "copy", r))
    /\ UNCHANGED <<swWait, offWait, rqSW>>
    /\ UNCHANGED <<dlVars, pureVars>>
    /\ UNCHANGED batchVars

NextDownloads ==
    \/ \E j \in 1..MaxJobs : OffscreenDownloadMarkdown(j)
    \/ \E j \in 1..MaxJobs : OffscreenDelegateImages(j)
    \/ \E j \in 1..MaxJobs : DownloadMarkdown(j)
    \/ \E j \in 1..MaxJobs : HandleImageDownloadsDirectly(j)
    \/ \E j \in 1..MaxJobs : PlatformForeignDownload(j)
    \/ \E j \in 1..MaxJobs : PlatformDownload(j)
    \/ \E j \in 1..MaxJobs : OffscreenDownloadMarkdownResume(j)
    \/ \E j \in 1..MaxJobs : HandleDownloadWithBlobUrlResume(j)
    \/ \E j \in 1..MaxJobs : DownloadMarkdownResume(j)
    \/ \E j \in 1..MaxJobs : HandleImageDownloadsResume(j)
    \/ \E j \in 1..MaxJobs : HandleImageDownloadsDirectlyResume(j)
    \/ SWHandleMessages
    \/ \E id \in 1..MaxJobs : OnDeterminingFilename(id)
    \/ \E id \in 1..MaxJobs : OnChanged(id)
    \/ OffscreenHandleMessages

Init == InitDownloads /\ InitRequests /\ batchMode = "none" /\ PureAtRest

Next == NextDownloads

Spec == Init /\ [][Next]_vars

\* Offscreen document: one runtime message reaches handleMessages and the
\* registered one-shot listeners.
OffscreenOnMessage ==
    /\ rqOff # <<>>
    /\ LET message == Head(rqOff)
           waits == Dispatch(offWait, message)
           r == message.forReq
       IN  /\ rqOff' = Tail(rqOff)
           /\ IF message.target # "offscreen"
              THEN IF message.type = "article-dom-data"
                   THEN \E domOk \in BOOLEAN :
                           /\ rqSW' = Append(rqSW, ReqMsg("article-result", "", message.requestId, message.tabId, ~domOk, "", r))
                           /\ offWait' = waits
                           /\ UNCHANGED req
                   ELSE /\ offWait' = waits
                        /\ UNCHANGED <<req, rqSW>>
              ELSE IF message.type = "get-article-content"
                   THEN /\ rqSW' = Append(rqSW, ReqMsg("forward-get-article-content", "", message.requestId, message.tabId, FALSE, "", r))
                        /\ req' = [req EXCEPT ![r].sent = TRUE]
                        /\ offWait' = waits
              ELSE IF message.type = "process-content"
                   THEN \E convertOk \in BOOLEAN :
                           /\ rqSW' = Append(rqSW,
                                  IF convertOk
                                  THEN ReqMsg("markdown-result", "", message.requestId, 0, FALSE, "", r)
                                  ELSE ReqMsg("process-error", "", 0, 0, TRUE, "", r))
                           /\ req' = [req EXCEPT ![r].off = "done"]
                           /\ offWait' = waits
                   ELSE /\ message.type = "process-context-menu"
                        /\ offWait' = [waits EXCEPT ![r] = NewWait("article-content-result", "requestId", generateRequestId(r))]
                        /\ rqSW' = Append(rqSW, ReqMsg("get-tab-content", "", generateRequestId(r), message.tabId, FALSE, "", r))
                        /\ req' = [req EXCEPT ![r].sent = TRUE, ![r].off = "waiting"]
    /\ UNCHANGED swWait
    /\ UNCHANGED <<dlVars, pureVars>>
    /\ UNCHANGED batchVars

\* Service worker: one runtime message reaches handleMessages and the
\* registered one-shot listeners.  article-result, process-complete and
\* process-error have no case in handleMessages.  forwardGetArticleContent
\* sends nothing when the capture fails (its catch writes to the console);
\* getTabContentForOffscreen sends the error with the request id.
SWOnMessage ==
    /\ rqSW # <<>>
    /\ LET message == Head(rqSW)
           r == message.forReq
       IN  /\ rqSW' = Tail(rqSW)
           /\ swWait' = Dispatch(swWait, message)
           /\ IF message.type = "forward-get-article-content"
              THEN \E captureOk \in BOOLEAN :
                      /\ rqOff' = IF captureOk
                                  THEN Append(rqOff, ReqMsg("article-dom-data", "", message.requestId, message.tabId, FALSE, "", r))
                                  ELSE rqOff
                      /\ req' = [req EXCEPT ![r].captureFailed = @ \/ ~captureOk]
                      /\ UNCHANGED rqPopup
              ELSE IF message.type = "get-tab-content"
                   THEN \E captureOk \in BOOLEAN :
                           /\ rqOff' = Append(rqOff, ReqMsg("article-content-result", "", message.requestId, message.tabId, ~captureOk, "", r))
                           /\ req' = [req EXCEPT ![r].offSent = TRUE,
                                                  ![r].captureFailed = @ \/ ~captureOk]
                           /\ UNCHANGED rqPopup
              ELSE IF message.type = "clip"
                   THEN /\ rqOff' = Append(rqOff, ReqMsg("process-content", "offscreen", generateRequestId(r), message.tabId, FALSE, "", r))
                        /\ UNCHANGED <<req, rqPopup>>
              ELSE IF message.type = "markdown-result"
                   THEN /\ rqPopup' = Append(rqPopup, ReqMsg("display.md", "", 0, 0, FALSE, "", r))
                        /\ UNCHANGED <<req, rqOff>>
                   ELSE UNCHANGED <<req, rqOff, rqPopup>>
    /\ UNCHANGED offWait
    /\ UNCHANGED <<dlVars, pureVars>>
    /\ UNCHANGED <<batchMode, tabsLoaded, popupWait>>

\* The 30 s timer of a service worker wait fires.
SWTimeout(r) ==
    /\ swWait[r].timer = "armed"
    /\ swWait' = [swWait EXCEPT ![r] = timeoutCallback(@)]
    /\ UNCHANGED <<req, offWait, rqSW, rqOff>>
    /\ UNCHANGED <<dlVars, pureVars>>
    /\ UNCHANGED batchVars

\* The 30 s timer of an offscreen wait fires.
OffTimeout(r) ==
    /\ offWait[r].timer = "armed"
    /\ offWait' = [offWait EXCEPT ![r] = timeoutCallback(@)]
    /\ UNCHANGED <<req, swWait, rqSW, rqOff>>
    /\ UNCHANGED <<dlVars, pureVars>>
    /\ UNCHANGED batchVars

\* Offscreen getArticleFromContent returns (the article, or null after any
\* error) and handleContextMenuDownload / handleContextMenuCopy runs on.
OffscreenGetArticleReturns(r) ==
    /\ req[r].off = "waiting"
    /\ req[r].offSent
    /\ Settled(offWait[r])
    /\ \E domOk \in BOOLEAN, convertOk \in BOOLEAN :
        LET article == offWait[r].state = "resolved" /\ domOk
        IN  IF req[r].kind = "ctxDownload"
            THEN /\ rqSW' = Append(rqSW, ReqMsg("process-complete", "", 0, req[r].tab, ~(article /\ convertOk), "", r))
                 /\ req' = [req EXCEPT ![r].off = "done"]
            ELSE /\ req' = [req EXCEPT ![r].off = "done", ![r].pc = "done",
                                       ![r].outcome = IF article /\ convertOk THEN "resolved" ELSE "rejected"]
                 /\ UNCHANGED rqSW
    /\ UNCHANGED <<swWait, offWait, rqOff>>
    /\ UNCHANGED <<dlVars, pureVars>>
    /\ UNCHANGED batchVars

\* The service worker function runs on after its two awaits and returns or throws.
SWRequestReturns(r) ==
    /\ req[r].pc = "waiting"
    /\ req[r].kind \in {"swArticle", "ctxDownload"}
    /\ req[r].sent
    /\ Settled(swWait[r])
    /\ req' = [req EXCEPT ![r].pc = "done", ![r].outcome = swWait[r].state]
    /\ UNCHANGED <<swWait, offWait, rqSW, rqOff>>
    /\ UNCHANGED <<dlVars, pureVars>>
    /\ UNCHANGED batchVars

NextRequests ==
    \/ \E r \in 1..MaxReqs : GetArticleFromContent(r)
    \/ \E r \in 1..MaxReqs : ContextMenuDownload(r)
    \/ \E r \in 1..MaxReqs : copyMarkdownFromContext(r)
    \/ OffscreenOnMessage
    \/ SWOnMessage
    \/ \E r \in 1..MaxReqs : SWTimeout(r)
    \/ \E r \in 1..MaxReqs : OffTimeout(r)
    \/ \E r \in 1..MaxReqs : OffscreenGetArticleReturns(r)
    \/ \E r \in 1..MaxReqs : SWRequestReturns(r)

InitReq ==
    /\ InitDownloads
    /\ topology = "chrome"
    /\ offHasDownloads
    /\ InitRequests
    /\ batchMode = "none"
    /\ PureAtRest

SpecReq == InitReq /\ [][NextRequests]_vars

\* Messages are delivered, timers fire and ready continuations run; nothing
\* obliges a request to be started.
FairReq ==
    /\ WF_vars(OffscreenOnMessage)
    /\ WF_vars(SWOnMessage)
    /\ \A r \in 1..MaxReqs :
        /\ WF_vars(SWTimeout(r))
        /\ WF_vars(OffTimeout(r))
        /\ WF_vars(OffscreenGetArticleReturns(r))
        /\ WF_vars(SWRequestReturns(r))

SpecReqFair == SpecReq /\ FairReq

\* ================================================================= batches
\* The popup's display.md listener: any display.md message matches; it clears
\* its timer and removes itself.
displayMdListener(w, message) ==
    IF message.type = "display.md"
    THEN Settle([w EXCEPT !.registered = FALSE,
                          !.timer = IF @ = "armed" THEN "cleared" ELSE @],
                "resolved", message.forReq, "reply")
    ELSE w

\* The popup's timer callback rejects and leaves the listener registered.
displayMdTimeout(w) ==
    Settle([w EXCEPT !.timer = "fired"], "rejected", -1, "timeout")

PreviousItemDone(r) == IF r = 1 THEN TRUE ELSE req[r - 1].pc = "done"

PreviousTabResolved(r) ==
    IF r = 1 THEN TRUE ELSE req[r - 1].pc = "done" /\ req[r - 1].outcome = "resolved"

\* handleBatchConversion, first loop: the next tab is created, awaited until
\* loaded and injected; a load timeout or a failed injection throws to the
\* outer catch and ends the batch.
PopupLoadTab ==
    /\ batchMode = "popup"
    /\ tabsLoaded >= 0
    /\ tabsLoaded < MaxReqs
    /\ \E loadOk \in BOOLEAN :
        tabsLoaded' = IF loadOk THEN tabsLoaded + 1 ELSE -1
    /\ UNCHANGED <<batchMode, popupWait, rqPopup>>
    /\ UNCHANGED reqVars
    /\ UNCHANGED <<dlVars, pureVars>>

\* handleBatchConversion, second loop: the loop enters the item of tab r and
\* creates displayMdPromise.
PopupBatchItem(r) ==
    /\ batchMode = "popup"
    /\ tabsLoaded = MaxReqs
    /\ IdleReq(r)
    /\ PreviousItemDone(r)
    /\ req' = [req EXCEPT ![r] = [NoReq EXCEPT !.kind = "popupItem", !.tab = r, !.pc = "clipping"]]
    /\ popupWait' = [popupWait EXCEPT ![r] = NewWait("display.md", "", 0)]
    /\ UNCHANGED <<swWait, offWait, rqSW, rqOff, batchMode, tabsLoaded, rqPopup>>
    /\ UNCHANGED <<dlVars, pureVars>>

\* clipSite: the tab's DOM is captured and sent as "clip"; a failed capture is
\* shown as an error and sends nothing.
clipSite(r) ==
    /\ req[r].kind = "popupItem"
    /\ req[r].pc = "clipping"
    /\ \E captureOk \in BOOLEAN :
        IF captureOk
        THEN /\ rqSW' = Append(rqSW, ReqMsg("clip", "", 0, req[r].tab, FALSE, "", r))
             /\ req' = [req EXCEPT ![r].pc = "waiting", ![r].off = "requested"]
        ELSE /\ req' = [req EXCEPT ![r].pc = "waiting"]
             /\ UNCHANGED rqSW
    /\ UNCHANGED <<swWait, offWait, rqOff>>
    /\ UNCHANGED batchVars
    /\ UNCHANGED <<dlVars, pureVars>>

\* Popup: one runtime message reaches the registered display.md listeners.
PopupOnMessage ==
    /\ rqPopup # <<>>
    /\ rqPopup' = Tail(rqPopup)
    /\ popupWait' = [r \in 1..MaxReqs |->
                        IF popupWait[r].registered
                        THEN displayMdListener(popupWait[r], Head(rqPopup))
                        ELSE popupWait[r]]
    /\ UNCHANGED <<batchMode, tabsLoaded>>
    /\ UNCHANGED reqVars
    /\ UNCHANGED <<dlVars, pureVars>>

\* The 30 s timer of a display.md wait fires.
PopupTimeout(r) ==
    /\ popupWait[r].timer = "armed"
    /\ popupWait' = [popupWait EXCEPT ![r] = displayMdTimeout(@)]
    /\ UNCHANGED <<batchMode, tabsLoaded, rqPopup>>
    /\ UNCHANGED reqVars
    /\ UNCHANGED <<dlVars, pureVars>>

\* The item's await of displayMdPromise ends: the markdown is sent for
\* download, or the catch block shows the error; the loop goes on either way.
PopupItemReturns(r) ==
    /\ req[r].kind = "popupItem"
    /\ req[r].pc = "waiting"
    /\ Settled(popupWait[r])
    /\ req' = [req EXCEPT ![r].pc = "done", ![r].outcome = popupWait[r].state]
    /\ UNCHANGED <<swWait, offWait, rqSW, rqOff>>
    /\ UNCHANGED batchVars
    /\ UNCHANGED <<dlVars, pureVars>>

\* downloadMarkdownForAllTabs: the loop awaits each tab's
\* downloadMarkdownFromContext; a rejection ends the loop.
downloadMarkdownForAllTabs(r) ==
    /\ batchMode = "allTabs"
    /\ IdleReq(r)
    /\ PreviousTabResolved(r)
    /\ \E scriptsOk \in BOOLEAN : downloadMarkdownFromContext(r, r, scriptsOk)

NextBatch ==
    \/ PopupLoadTab
    \/ \E r \in 1..MaxReqs : PopupBatchItem(r)
    \/ \E r \in 1..MaxReqs : clipSite(r)
    \/ PopupOnMessage
    \/ \E r \in 1..MaxReqs : PopupTimeout(r)
    \/ \E r \in 1..MaxReqs : PopupItemReturns(r)
    \/ \E r \in 1..MaxReqs : downloadMarkdownForAllTabs(r)
    \/ OffscreenOnMessage
    \/ SWOnMessage
    \/ \E r \in 1..MaxReqs : SWTimeout(r)
    \/ \E r \in 1..MaxReqs : OffTimeout(r)
    \/ \E r \in 1..MaxReqs : OffscreenGetArticleReturns(r)
    \/ \E r \in 1..MaxReqs : SWRequestReturns(r)

InitBatch ==
    /\ InitDownloads
    /\ topology = "chrome"
    /\ offHasDownloads
    /\ InitRequests
    /\ batchMode \in {"popup", "allTabs"}
    /\ PureAtRest

SpecBatch == InitBatch /\ [][NextBatch]_vars

\* A started batch function runs on: its loop steps are taken when they can be.
FairBatch ==
    /\ FairReq
    /\ WF_vars(PopupLoadTab)
    /\ WF_vars(PopupOnMessage)
    /\ \A r \in 1..MaxReqs :
        /\ WF_vars(PopupBatchItem(r))
        /\ WF_vars(clipSite(r))
        /\ WF_vars(PopupTimeout(r))
        /\ WF_vars(PopupItemReturns(r))
        /\ WF_vars(downloadMarkdownForAllTabs(r))

SpecBatchFair == SpecBatch /\ FairBatch

\* ------------------------------------------------------------- SpecWaits
\* Every correlated wait of the extension: the requests outside a batch and
\* the two batches.
InitWaits == InitReq \/ InitBatch

RequestsOutsideBatch == batchMode = "none" /\ NextRequests

RequestsOfBatch == batchMode # "none" /\ NextBatch

NextWaits == RequestsOutsideBatch \/ RequestsOfBatch

SpecWaits == InitWaits /\ [][NextWaits]_vars

\* ------------------------------------------------------------ SpecConvert
PreDownloads == cvOptions.downloadImages /\ cvOptions.downloadMode = "downloadsApi"

\* The documents: every sequence of at most MaxImages IMG nodes.
Documents == UNION {[1..n -> ImgSrcs] : n \in 0..MaxImages}

InitConvert ==
    /\ OrchestrationAtRest
    /\ AtRest("convert")
    /\ cvOptions \in [downloadImages : BOOLEAN,
                      downloadMode : {"downloadsApi", "contentLink"},
                      outputFormat : {"markdown", "org"}]
    /\ cvNodes \in Documents
    /\ imageList = EmptyMap
    /\ fetched = EmptyMap
    /\ newImageList = EmptyMap
    /\ cvResult = "none"
    /\ imgDownload = EmptyMap

\* turndown / orgdown reach the next IMG node; the image rule enters it in the
\* manifest when images are to be downloaded.
ImagesRule ==
    /\ cvNodes # <<>>
    /\ cvNodes' = Tail(cvNodes)
    /\ imageList' = IF cvOptions.downloadImages
                    THEN imagesRule(imageList, Head(cvNodes))
                    ELSE imageList
    /\ UNCHANGED <<cvOptions, fetched, newImageList, cvResult, imgDownload>>
    /\ UNCHANGED notCvVars

\* turndown / orgdown return; convertArticleToMarkdown / convertArticleToOrg
\* call preDownloadImages, which starts every fetch, or return the result.
ConverterReturns ==
    /\ cvNodes = <<>>
    /\ cvResult = "none"
    /\ fetched = EmptyMap
    /\ IF PreDownloads /\ DOMAIN imageList # {}
       THEN /\ fetched' = [src \in DOMAIN imageList |-> "pending"]
            /\ UNCHANGED cvResult
       ELSE /\ cvResult' = "ready"
            /\ UNCHANGED fetched
    /\ UNCHANGED <<cvOptions, cvNodes, imageList, newImageList, imgDownload>>
    /\ UNCHANGED notCvVars

\* filename.replace('.idunno', '.' + extension)
ReplaceIdunno(filename, extension) ==
    IF filename[Len(filename)] = "idunno"
    THEN [filename EXCEPT ![Len(filename)] = extension]
    ELSE filename

\* Promise.all over the image promises: rejected by the first rejection,
\* resolved when every one is resolved.
PromiseAll(result, states) ==
    IF result # "none" THEN result
    ELSE IF \E x \in DOMAIN states : states[x] = "failed" THEN "failed"
    ELSE IF \A x \in DOMAIN states : states[x] = "ok" THEN "ready"
    ELSE "none"

\* preDownloadImages: the fetch of one image ends.  A fetched image gets an
\* object URL and its filename in the new manifest; a failed fetch rejects
\* its promise.
FetchImage(src) ==
    /\ src \in DOMAIN fetched
    /\ fetched[src] = "pending"
    /\ \E ok \in BOOLEAN, extension \in {"png", "bin"} :
        LET states == [fetched EXCEPT ![src] = IF ok THEN "ok" ELSE "failed"]
        IN  /\ fetched' = states
            /\ newImageList' = IF ok
                               THEN MapSet(newImageList, <<"blob", src>>,
                                           ReplaceIdunno(imageList[src], extension))
                               ELSE newImageList
            /\ cvResult' = PromiseAll(cvResult, states)
    /\ UNCHANGED <<cvOptions, cvNodes, imageList, imgDownload>>
    /\ UNCHANGED notCvVars

\* The manifest the conversion returns.
ResultImageList == IF PreDownloads THEN newImageList ELSE imageList

\* Service worker handleImageDownloads: the loop downloads the next manifest
\* entry; a throw of the download call is caught and the loop goes on.
HandleImageDownloads(src) ==
    /\ cvResult = "ready"
    /\ PreDownloads
    /\ src \in DOMAIN ResultImageList
    /\ src \notin DOMAIN imgDownload
    /\ \E ok \in BOOLEAN :
        imgDownload' = MapSet(imgDownload, src, IF ok THEN "started" ELSE "failed")
    /\ UNCHANGED <<cvOptions, cvNodes, imageList, fetched, newImageList, cvResult>>
    /\ UNCHANGED notCvVars

ImgKeys == ImgSrcs \cup {<<"blob", s>> : s \in ImgSrcs}

NextConvert ==
    \/ ImagesRule
    \/ ConverterReturns
    \/ \E src \in ImgSrcs : FetchImage(src)
    \/ \E src \in ImgKeys : HandleImageDownloads(src)

SpecConvert == InitConvert /\ [][NextConvert]_vars

\* ---------------------------------------------------------------------
\* One clip request, run in both topologies on the same captured input.
\* The popup sends "clip"; on Chrome the service worker forwards it to the
\* offscreen document (process-content) and relays the markdown-result as
\* display.md; on Firefox the service worker converts inline.
\* ---------------------------------------------------------------------

Undefined == "undefined"

StoredOptions == "options"

Thrown(text) == [threw |-> TRUE, error |-> text]

\* A page in which Readability finds no article.
Unreadable == "unreadable"

\* new Readability(dom).parse(): the article, or null when nothing was
\* extracted.
ReadabilityParses(domString) == domString # Unreadable

\* getArticleFromDom(domString, options): throws on a falsy DOM string,
\* reads options.preserveCodeFormatting before anything else, and assigns
\* to the fields of what parse() returned.
getArticleFromDom(domString, options) ==
    IF domString = "" THEN Thrown("Invalid DOM string provided")
    ELSE IF options = Undefined THEN Thrown("TypeError: options is undefined")
    ELSE IF ~ReadabilityParses(domString) THEN Thrown("TypeError: article is null")
    ELSE [threw |-> FALSE, error |-> "",
          article |-> [content |-> <<"readable", domString>>,
                       title |-> <<"title", domString>>]]

\* The steps shared by processContent and the Firefox branch of
\* handleClipRequest: article, selection, conversion, title and folder.
\* domOptions is what the caller hands to getArticleFromDom.
ConvertClip(data, domOptions, options) ==
    LET got == getArticleFromDom(data.dom, domOptions)
    IN  IF got.threw THEN got
        ELSE IF ~clipInput.convertOk THEN Thrown("conversion failed")
        ELSE LET content == IF data.selection # "" /\ data.clipSelection
                               THEN <<"selection", data.selection>>
                               ELSE got.article.content
             IN  [threw |-> FALSE, error |-> "",
                  result |-> [markdown |-> <<"markdown", content, options>>,
                              article |-> [content |-> content,
                                           title |-> <<"formatTitle", got.article.title, options>>],
                              imageList |-> <<"imageList", content>>,
                              mdClipsFolder |-> <<"formatMdClipsFolder", options>>]]

DisplayMd(result) ==
    [type |-> "display.md", markdown |-> result.markdown, article |-> result.article,
     imageList |-> result.imageList, mdClipsFolder |-> result.mdClipsFolder]

InitClip ==
    /\ OrchestrationAtRest
    /\ AtRest("clip")
    /\ clipInput \in [dom: {"", "page", Unreadable}, selection: {"", "text"},
                      clipSelection: BOOLEAN, convertOk: BOOLEAN]
    /\ clip = [t \in Topologies |->
                [pc |-> "idle", message |-> NoMessage, failed |-> FALSE,
                 popup |-> [spinner |-> TRUE, editor |-> <<"none">>]]]

\* popup clipSite: the captured DOM and selection, spread with the options.
PopupSendsClip(t) ==
    /\ clip[t].pc = "idle"
    /\ clip' = [clip EXCEPT ![t].pc = "sent",
                            ![t].message = [type |-> "clip",
                                            dom |-> clipInput.dom,
                                            selection |-> clipInput.selection,
                                            clipSelection |-> clipInput.clipSelection]]
    /\ UNCHANGED <<clipInput, notClipVars>>

\* service worker handleClipRequest.  A throw rejects the handler: nothing
\* is sent.
handleClipRequest(t) ==
    /\ clip[t].message.type = "clip"
    /\ IF t = "chrome"
       THEN clip' = [clip EXCEPT ![t].message =
                        [type |-> "process-content", data |-> clip[t].message,
                         options |-> StoredOptions]]
       ELSE LET c == ConvertClip(clip[t].message, Undefined, StoredOptions)
            IN  IF c.threw
                THEN clip' = [clip EXCEPT ![t].message = NoMessage]
                ELSE clip' = [clip EXCEPT ![t].message = DisplayMd(c.result)]
    /\ UNCHANGED <<clipInput, notClipVars>>

\* offscreen processContent: markdown-result, or process-error from the catch.
processContent(t) ==
    /\ clip[t].message.type = "process-content"
    /\ LET m == clip[t].message
           c == ConvertClip(m.data, m.options, m.options)
       IN  IF c.threw
           THEN clip' = [clip EXCEPT ![t].failed = TRUE,
                                     ![t].message = [type |-> "process-error",
                                                     error |-> c.error]]
           ELSE clip' = [clip EXCEPT ![t].message = [type |-> "markdown-result",
                                                     result |-> c.result]]
    /\ UNCHANGED <<clipInput, notClipVars>>

\* service worker handleMarkdownResult: relays the result as display.md.
handleMarkdownResult(t) ==
    /\ clip[t].message.type = "markdown-result"
    /\ clip' = [clip EXCEPT ![t].message = DisplayMd(clip[t].message.result)]
    /\ UNCHANGED <<clipInput, notClipVars>>

\* service worker handleMessages has no case for process-error, and the
\* popup's notify ignores every type but display.md: the message is dropped.
ProcessErrorDropped(t) ==
    /\ clip[t].message.type = "process-error"
    /\ clip' = [clip EXCEPT ![t].message = NoMessage]
    /\ UNCHANGED <<clipInput, notClipVars>>

\* popup notify: display.md fills the editor and hides the spinner.
notify(t) ==
    /\ clip[t].message.type = "display.md"
    /\ clip' = [clip EXCEPT ![t].message = NoMessage,
                            ![t].popup = [spinner |-> FALSE,
                                          editor |-> <<clip[t].message.markdown,
                                                       clip[t].message.article.title,
                                                       clip[t].message.imageList,
                                                       clip[t].message.mdClipsFolder>>]]
    /\ UNCHANGED <<clipInput, notClipVars>>

NextClip ==
    \E t \in Topologies :
        \/ PopupSendsClip(t)
        \/ handleClipRequest(t)
        \/ processContent(t)
        \/ handleMarkdownResult(t)
        \/ ProcessErrorDropped(t)
        \/ notify(t)

SpecClip == InitClip /\ [][NextClip]_vars

\* ---------------------------------------------------------------------
\* generateValidFileName.  A string is a sequence of characters; Nbsp
\* stands for U+00A0.
\* ---------------------------------------------------------------------

MaxTitleLen == 3

Nbsp == "nbsp"

\* null, as a value no string is equal to.
Null == <<"null">>

\* illegalRe = /[\/\?<>\\:\*\|":]/g
IllegalChars == {"/", "?", "<", ">", "\\", ":", "*", "|", "\""}

\* The characters generateValidFileName escapes before building a RegExp.
RegExpSpecial == {"[", "\\", "^", "$", ".", "|", "?", "*", "+", "(", ")"}

RemoveChars(s, chars) ==
    LET Keep(c) == c \notin chars IN SelectSeq(s, Keep)

ReplaceChar(s, from, to) ==
    [i \in DOMAIN s |-> IF s[i] = from THEN to ELSE s[i]]

\* for (let c of disallowedChars) name = name.replace(new RegExp(c, 'g'), '').
\* A special character is escaped, so that every c is matched literally.
RECURSIVE RemoveDisallowed(_, _)
RemoveDisallowed(name, disallowedChars) ==
    IF disallowedChars = <<>> THEN name
    ELSE LET c == Head(disallowedChars)
             pattern == IF c \in RegExpSpecial THEN <<"\\", c>> ELSE <<c>>
         IN  RemoveDisallowed(RemoveChars(name, {pattern[Len(pattern)]}),
                              Tail(disallowedChars))

\* The function without its replacement of non-breaking spaces.
generateValidFileNameKeepsNbsp(title, disallowedChars) ==
    IF title = Null \/ title = <<>> THEN title
    ELSE LET name == RemoveChars(title, IllegalChars)
         IN  IF disallowedChars = Null \/ disallowedChars = <<>> THEN name
             ELSE RemoveDisallowed(name, disallowedChars)

generateValidFileName(title, disallowedChars) ==
    IF title = Null \/ title = <<>> THEN title
    ELSE LET name == ReplaceChar(RemoveChars(title, IllegalChars), Nbsp, " ")
         IN  IF disallowedChars = Null \/ disallowedChars = <<>> THEN name
             ELSE RemoveDisallowed(name, disallowedChars)

TitleChars == {"b", " ", "/", ":", "\\", Nbsp, "[", "#", "."}

Titles == {Null} \cup UNION {[1..n -> TitleChars] : n \in 0..MaxTitleLen}

DisallowLists == {Null, <<>>, <<"[", "]", "#", "^">>, <<".", " ">>, <<"b">>}

InitFileName ==
    /\ OrchestrationAtRest
    /\ AtRest("fileName")
    /\ fn \in [title: Titles, disallowedChars: DisallowLists,
               pc: {"call"}, name: {<<>>}]

GenerateValidFileName ==
    /\ fn.pc = "call"
    /\ fn' = [fn EXCEPT !.pc = "returned",
                        !.name = generateValidFileName(fn.title, fn.disallowedChars)]
    /\ UNCHANGED notFnVars

NextFileName == GenerateValidFileName

SpecFileName == InitFileName /\ [][NextFileName]_vars

\* ---------------------------------------------------------------------
\* textReplace.  Strings are sequences of characters.  The characters of
\* the model's strings are letters, digits, braces, ':', ',', ' ', '-',
\* '_', '#' and the line feed: none is special in a RegExp or in a
\* replacement string, so a pattern built from text matches that text.
\* ---------------------------------------------------------------------

MaxPieces == 2

LineFeed == "\n"

LowerCase == <<"a", "b", "c", "d", "e", "f", "g", "h", "i", "j", "k", "l", "m",
               "n", "o", "p", "q", "r", "s", "t", "u", "v", "w", "x", "y", "z">>

UpperCase == <<"A", "B", "C", "D", "E", "F", "G", "H", "I", "J", "K", "L", "M",
               "N", "O", "P", "Q", "R", "S", "T", "U", "V", "W", "X", "Y", "Z">>

toLowerCase(c) ==
    IF \E i \in DOMAIN UpperCase : UpperCase[i] = c
    THEN LowerCase[CHOOSE i \in DOMAIN UpperCase : UpperCase[i] = c]
    ELSE c

toUpperCase(c) ==
    IF \E i \in DOMAIN LowerCase : LowerCase[i] = c
    THEN UpperCase[CHOOSE i \in DOMAIN LowerCase : LowerCase[i] = c]
    ELSE c

StartsWith(s, pat) == Len(s) >= Len(pat) /\ SubSeq(s, 1, Len(pat)) = pat

Drop(s, n) == SubSeq(s, n + 1, Len(s))

\* string.replace(/pat/g, rep) and string.replaceAll(pat, rep) for a
\* literal pat: every occurrence, left to right, the replacement not rescanned.
RECURSIVE ReplaceAll(_, _, _)
ReplaceAll(s, pat, rep) ==
    IF pat = <<>> \/ Len(s) < Len(pat) THEN s
    ELSE IF StartsWith(s, pat) THEN rep \o ReplaceAll(Drop(s, Len(pat)), pat, rep)
    ELSE <<Head(s)>> \o ReplaceAll(Tail(s), pat, rep)

RECURSIVE Join(_, _)
Join(array, separator) ==
    IF array = <<>> THEN <<>>
    ELSE IF Len(array) = 1 THEN array[1]
    ELSE array[1] \o separator \o Join(Tail(array), separator)

\* s.replace(/ /g, '-').toLowerCase() and s.replace(/ /g, '_').toLowerCase()
Kebab(s) == [i \in DOMAIN s |-> IF s[i] = " " THEN "-" ELSE toLowerCase(s[i])]

Snake(s) == [i \in DOMAIN s |-> IF s[i] = " " THEN "_" ELSE toLowerCase(s[i])]

\* s.replace(/ ./g, str => str.trim().toUpperCase()): a space and the
\* character after it (not a line feed) become that character in upper case.
RECURSIVE JoinWords(_)
JoinWords(s) ==
    IF Len(s) < 2 THEN s
    ELSE IF s[1] = " " /\ s[2] # LineFeed
         THEN (IF s[2] = " " THEN <<>> ELSE <<toUpperCase(s[2])>>) \o JoinWords(Drop(s, 2))
         ELSE <<s[1]>> \o JoinWords(Tail(s))

\* .replace(/^./, ...): the first character, unless it is a line feed.
Camel(s) ==
    LET w == JoinWords(s)
    IN  IF w = <<>> \/ w[1] = LineFeed THEN w ELSE <<toLowerCase(w[1])>> \o Tail(w)

Pascal(s) ==
    LET w == JoinWords(s)
    IN  IF w = <<>> \/ w[1] = LineFeed THEN w ELSE <<toUpperCase(w[1])>> \o Tail(w)

\* The article's own keys, in the order getArticleFromDom creates them.
ArticleKeys == <<"title", "byline", "content", "keywords">>

KeyText ==
    [title |-> <<"t", "i", "t", "l", "e">>,
     byline |-> <<"b", "y", "l", "i", "n", "e">>,
     content |-> <<"c", "o", "n", "t", "e", "n", "t">>,
     keywords |-> <<"k", "e", "y", "w", "o", "r", "d", "s">>]

DateText == <<"d", "a", "t", "e">>

Token(name) == <<"{">> \o name \o <<"}">>

Suffixed(name, suffix) == <<"{">> \o name \o <<":">> \o suffix \o <<"}">>

\* (article[key] || '') + '': an array is joined with commas.
ValueString(article, key) ==
    IF article[key] = Null THEN <<>>
    ELSE IF key = "keywords" THEN Join(article[key], <<",">>)
    ELSE article[key]

\* The body of the loop over the article's keys, for one key.
ReplaceKey(string, article, key, disallowedChars) ==
    IF key = "content" THEN string
    ELSE LET v == ValueString(article, key)
             s == IF v # <<>> /\ ~(disallowedChars = Null \/ disallowedChars = <<>>)
                  THEN generateValidFileName(v, disallowedChars) ELSE v
             k == KeyText[key]
             s1 == ReplaceAll(string, Token(k), s)
             s2 == ReplaceAll(s1, Suffixed(k, <<"k", "e", "b", "a", "b">>), Kebab(s))
             s3 == ReplaceAll(s2, Suffixed(k, <<"s", "n", "a", "k", "e">>), Snake(s))
             s4 == ReplaceAll(s3, Suffixed(k, <<"c", "a", "m", "e", "l">>), Camel(s))
         IN  ReplaceAll(s4, Suffixed(k, <<"p", "a", "s", "c", "a", "l">>), Pascal(s))

RECURSIVE ReplaceKeys(_, _, _, _)
ReplaceKeys(string, article, keys, disallowedChars) ==
    IF keys = <<>> THEN string
    ELSE ReplaceKeys(ReplaceKey(string, article, Head(keys), disallowedChars),
                     article, Tail(keys), disallowedChars)

\* The positions j >= from of a '}' that no line feed separates from `open`.
Closers(s, open, from) ==
    {j \in from..Len(s) :
        /\ s[j] = "}"
        /\ \A i \in open..(j - 1) : s[i] # LineFeed}

Min(S) == CHOOSE x \in S : \A y \in S : x <= y

Max(S) == CHOOSE x \in S : \A y \in S : x >= y

\* string.match(/{date:(.+?)}/g): the matches, left to right.
RECURSIVE DateMatches(_)
DateMatches(s) ==
    LET prefix == <<"{">> \o DateText \o <<":">>
        n == Len(prefix)
    IN  IF Len(s) < n + 2 THEN <<>>
        ELSE IF StartsWith(s, prefix) /\ Closers(s, 1, n + 2) # {}
        THEN LET j == Min(Closers(s, 1, n + 2))
             IN  <<SubSeq(s, 1, j)>> \o DateMatches(Drop(s, j))
        ELSE DateMatches(Tail(s))

\* moment(now).format(format), for the formats of the model: the year
\* token, other characters as they are.
MomentFormat(format) == ReplaceAll(format, <<"Y", "Y", "Y", "Y">>, <<"2", "0", "2", "6">>)

RECURSIVE ReplaceDateMatches(_, _)
ReplaceDateMatches(string, matches) ==
    IF matches = <<>> THEN string
    ELSE LET match == Head(matches)
             format == SubSeq(match, 7, Len(match) - 1)
         IN  ReplaceDateMatches(ReplaceAll(string, match, MomentFormat(format)),
                                Tail(matches))

ReplaceDates(string) == ReplaceDateMatches(string, DateMatches(string))

\* string.match(/{keywords:?(.*)?}/g): greedy, up to the last '}' of the line.
RECURSIVE KeywordMatches(_)
KeywordMatches(s) ==
    LET prefix == <<"{">> \o KeyText.keywords
        n == Len(prefix)
    IN  IF Len(s) < n + 1 THEN <<>>
        ELSE IF StartsWith(s, prefix) /\ Closers(s, 1, n + 1) # {}
        THEN LET j == Max(Closers(s, 1, n + 1))
             IN  <<SubSeq(s, 1, j)>> \o KeywordMatches(Drop(s, j))
        ELSE KeywordMatches(Tail(s))

\* match.substring(10, match.length - 1); substring swaps its arguments
\* when the first is the greater.
Separator(match) ==
    IF Len(match) - 1 < 10 THEN SubSeq(match, Len(match), 10)
    ELSE SubSeq(match, 11, Len(match) - 1)

RECURSIVE ReplaceKeywordMatches(_, _, _)
ReplaceKeywordMatches(string, article, matches) ==
    IF matches = <<>> THEN string
    ELSE LET match == Head(matches)
             keywords == IF article.keywords = Null THEN <<>> ELSE article.keywords
         IN  ReplaceKeywordMatches(
                 ReplaceAll(string, match, Join(keywords, Separator(match))),
                 article, Tail(matches))

ReplaceKeywords(string, article) ==
    ReplaceKeywordMatches(string, article, KeywordMatches(string))

\* string.replace(/{(.*?)}/g, '')
RECURSIVE StripBraces(_)
StripBraces(s) ==
    IF s = <<>> THEN s
    ELSE IF s[1] = "{" /\ Closers(s, 1, 2) # {}
         THEN StripBraces(Drop(s, Min(Closers(s, 1, 2))))
         ELSE <<Head(s)>> \o StripBraces(Tail(s))

textReplace(string, article, disallowedChars) ==
    StripBraces(
        ReplaceKeywords(
            ReplaceDates(ReplaceKeys(string, article, ArticleKeys, disallowedChars)),
            article))

\* The pieces templates are built from: literal text and tokens.
KnownPieces ==
    {<<"b">>, <<" ">>, <<LineFeed>>, <<"c", "}">>,
     Token(KeyText.title), Token(KeyText.byline),
     Suffixed(KeyText.title, <<"k", "e", "b", "a", "b">>),
     Suffixed(KeyText.title, <<"s", "n", "a", "k", "e">>),
     Suffixed(KeyText.title, <<"c", "a", "m", "e", "l">>),
     Suffixed(KeyText.title, <<"p", "a", "s", "c", "a", "l">>),
     Suffixed(DateText, <<"Y", "Y", "Y", "Y">>),
     Suffixed(DateText, <<"Y", "Y", "Y", "Y", LineFeed, "Y", "Y", "Y", "Y">>),
     Token(KeyText.keywords),
     Suffixed(KeyText.keywords, <<",", " ">>),
     Suffixed(KeyText.keywords, <<LineFeed>>)}

RECURSIVE Flatten(_)
Flatten(pieces) ==
    IF pieces = <<>> THEN <<>> ELSE Head(pieces) \o Flatten(Tail(pieces))

Templates == {Flatten(p) : p \in UNION {[1..n -> KnownPieces] : n \in 0..MaxPieces}}

TitleValues ==
    {<<"b", " ", "B">>,
     Token(KeyText.byline),
     Suffixed(DateText, <<"Y", "Y", "Y", "Y">>),
     Token(<<"x">>),
     <<"#", "b">>}

Articles ==
    [title: TitleValues, byline: {<<"T">>, <<>>}, content: {<<"c">>},
     keywords: {Null, <<<<"k">>, <<"w">>>>}]

InitTemplate ==
    /\ OrchestrationAtRest
    /\ AtRest("template")
    /\ \E t \in Templates, a \in Articles, d \in {Null, <<"#">>} :
          tr = [template |-> t, article |-> a, disallowedChars |-> d,
                string |-> t, pc |-> "keys"]

KeysPass ==
    /\ tr.pc = "keys"
    /\ tr' = [tr EXCEPT !.pc = "dates",
                        !.string = ReplaceKeys(tr.string, tr.article, ArticleKeys,
                                               tr.disallowedChars)]
    /\ UNCHANGED notTrVars

DatesPass ==
    /\ tr.pc = "dates"
    /\ tr' = [tr EXCEPT !.pc = "keywords", !.string = ReplaceDates(tr.string)]
    /\ UNCHANGED notTrVars

KeywordsPass ==
    /\ tr.pc = "keywords"
    /\ tr' = [tr EXCEPT !.pc = "cleanup",
                        !.string = ReplaceKeywords(tr.string, tr.article)]
    /\ UNCHANGED notTrVars

CleanupPass ==
    /\ tr.pc = "cleanup"
    /\ tr' = [tr EXCEPT !.pc = "returned", !.string = StripBraces(tr.string)]
    /\ UNCHANGED notTrVars

NextTemplate == KeysPass \/ DatesPass \/ KeywordsPass \/ CleanupPass

SpecTemplate == InitTemplate /\ [][NextTemplate]_vars

\* ---------------------------------------------------------------------
\* convertArticleToMarkdown and the options record.  `provided` is the
\* record a caller passes, `defaults` the shared defaultOptions that the
\* function falls back to; the function writes to whichever it uses.
\* ---------------------------------------------------------------------

MaxCalls == 2

RECURSIVE Split(_, _)
Split(s, c) ==
    IF \E i \in DOMAIN s : s[i] = c
    THEN LET i == Min({j \in DOMAIN s : s[j] = c})
         IN  <<SubSeq(s, 1, i - 1)>> \o Split(Drop(s, i), c)
    ELSE <<s>>

\* textReplace(imagePrefix, article, disallowedChars).split('/')
\*     .map(s => generateValidFileName(s, disallowedChars)).join('/')
ResolveImagePrefix(options, article) ==
    LET parts == Split(textReplace(options.imagePrefix, article, options.disallowedChars), "/")
    IN  Join([i \in DOMAIN parts |-> generateValidFileName(parts[i], options.disallowedChars)],
             <<"/">>)

\* The options after convertArticleToMarkdown(article, downloadImages, options).
OptionsAfterConvert(options, article, downloadImages) ==
    LET o1 == IF downloadImages # "null"
              THEN [options EXCEPT !.downloadImages = (downloadImages = "true")]
              ELSE options
        o2 == [o1 EXCEPT !.imagePrefix = ResolveImagePrefix(o1, article)]
    IN  IF o2.outputFormat = "org" THEN o2
        ELSE IF o2.includeTemplate
        THEN [o2 EXCEPT !.frontmatter = textReplace(o2.frontmatter, article, Null) \o <<LineFeed>>,
                        !.backmatter = <<LineFeed>> \o textReplace(o2.backmatter, article, Null)]
        ELSE [o2 EXCEPT !.frontmatter = <<>>, !.backmatter = <<>>]

\* turndown: options.frontmatter + markdown + options.backmatter; the Org
\* preamble is not taken from frontmatter.
ConvertedText(options) ==
    IF options.outputFormat = "org" THEN <<"o">>
    ELSE options.frontmatter \o <<"m">> \o options.backmatter

DefaultOptions ==
    [downloadImages |-> TRUE,
     imagePrefix |-> Token(KeyText.title) \o <<"/">>,
     disallowedChars |-> <<"#">>,
     outputFormat |-> "markdown",
     includeTemplate |-> FALSE,
     frontmatter |-> Token(KeyText.title),
     backmatter |-> Token(KeyText.byline)]

ConvertArticles ==
    {[title |-> <<"b", " ", "B">>, byline |-> <<"T">>, content |-> <<"c">>, keywords |-> Null],
     [title |-> <<"#", "b">>, byline |-> <<>>, content |-> <<"c">>, keywords |-> Null]}

InitOptions ==
    /\ OrchestrationAtRest
    /\ AtRest("options")
    /\ \E fmt \in {"markdown", "org"}, tpl \in BOOLEAN, dl \in BOOLEAN :
          LET given == [DefaultOptions EXCEPT !.outputFormat = fmt,
                                              !.includeTemplate = tpl,
                                              !.downloadImages = dl]
          IN  opt = [defaults |-> DefaultOptions, provided |-> given,
                     defaultsAtFirst |-> DefaultOptions, providedAtFirst |-> given,
                     calls |-> 0, template |-> Null, text |-> <<>>]

\* One call convertArticleToMarkdown(article, downloadImages, providedOptions),
\* providedOptions being the caller's record or null.
convertArticleToMarkdown ==
    /\ opt.calls < MaxCalls
    /\ \E article \in ConvertArticles, downloadImages \in {"null", "false"},
          providedOptions \in {"provided", "null"} :
          LET which == IF providedOptions = "null" THEN "defaults" ELSE "provided"
              options == opt[which]
              after == OptionsAfterConvert(options, article, downloadImages)
          IN  opt' = [opt EXCEPT ![which] = after,
                                 !.calls = @ + 1,
                                 !.template = IF options.outputFormat = "markdown"
                                                  /\ options.includeTemplate
                                              THEN options.frontmatter ELSE Null,
                                 !.text = ConvertedText(after)]
    /\ UNCHANGED notOptVars

NextOptions == convertArticleToMarkdown

SpecOptions == InitOptions /\ [][NextOptions]_vars

\* ---------------------------------------------------------------------
\* The table rule of turndown.  A cell is given by the text its own
\* turndown pass returns (escaping is switched off for cells); cells carry
\* no rowspan or colspan, so each fills one place of its row.
\* ---------------------------------------------------------------------

MaxRows == 2

MaxCols == 2

\* rows: the header row of thead followed by the children of tbody, or
\* the children of tbody alone.
TableRows(table) ==
    IF table.hasThead THEN <<table.thead>> \o table.tbody ELSE table.tbody

\* The marks of the formatting pattern: asterisk, underscore, tilde, backtick.
FormatMarks == {"*", "_", "~", "backtick"}

\* The last position of the run of format marks that starts at p.
RunEnd(s, p) == Max({e \in p..Len(s) : \A q \in p..e : s[q] \in FormatMarks})

\* The replacement of (marks)(text)(marks) by the text: a run of marks, the text up to
\* the next mark of the line and that run of marks become the text; a run
\* of two or more marks with no later mark matches with an empty text.
RECURSIVE StripFormatting(_)
StripFormatting(s) ==
    IF s = <<>> THEN s
    ELSE IF s[1] \notin FormatMarks THEN <<s[1]>> \o StripFormatting(Tail(s))
    ELSE LET run == RunEnd(s, 1)
             later == {p \in (run + 1)..Len(s) :
                          /\ s[p] \in FormatMarks
                          /\ \A q \in (run + 1)..(p - 1) : s[q] # LineFeed}
         IN  IF later # {}
             THEN SubSeq(s, run + 1, Min(later) - 1)
                  \o StripFormatting(Drop(s, RunEnd(s, Min(later))))
             ELSE IF run >= 2 THEN StripFormatting(Drop(s, run))
             ELSE <<s[1]>> \o StripFormatting(Tail(s))

\* simplifiedContent.length: line feeds become spaces, links and formatting
\* are reduced to their text; the model's cells hold no links.
VisibleLength(content) == Len(StripFormatting(ReplaceChar(content, LineFeed, " ")))

PlainCell(text) == [content |-> text, rowspan |-> 1, colspan |-> 1]

\* tableMatrix = Array.from({ length: rows.length }, () => []) and
\* columnWidths = []; owners records, place by place, the cell that wrote it.
EmptyMatrix(rows) ==
    [tableMatrix |-> [r \in DOMAIN rows |-> <<>>],
     owners |-> [r \in DOMAIN rows |-> <<>>],
     columnWidths |-> <<>>]

\* The test with its comparison lost: a column keeps its first width.
WiderFirstOnly(visibleLength, width) == width = 0

\* !columnWidths[targetCol] || visibleLength > columnWidths[targetCol]
Wider(visibleLength, width) == width = 0 \/ visibleLength > width

\* The body of the two loops: the content goes to the end of the target
\* row, and the column widens if the content is visibly longer.
PutCell(state, targetRow, content, owner) ==
    LET grown == IF targetRow > Len(state.tableMatrix)
                 THEN [state EXCEPT !.tableMatrix = Append(@, <<>>),
                                    !.owners = Append(@, <<>>)]
                 ELSE state
        targetCol == Len(grown.tableMatrix[targetRow]) + 1
        visibleLength == VisibleLength(content)
        widths == grown.columnWidths
    IN  [grown EXCEPT
            !.tableMatrix[targetRow] = Append(@, content),
            !.owners[targetRow] = Append(@, owner),
            !.columnWidths =
                IF targetCol > Len(widths) THEN Append(widths, visibleLength)
                ELSE IF Wider(visibleLength, widths[targetCol])
                     THEN [widths EXCEPT ![targetCol] = visibleLength]
                     ELSE widths]

\* for (let j = 0; j < colspan; j++)
RECURSIVE PutColumns(_, _, _, _, _)
PutColumns(state, targetRow, content, owner, j) ==
    IF j = 0 THEN state
    ELSE PutColumns(PutCell(state, targetRow, content, owner),
                    targetRow, content, owner, j - 1)

\* for (let i = 0; i < rowspan; i++), from the cell's own row downwards
RECURSIVE PutRows(_, _, _, _, _)
PutRows(state, targetRow, cell, owner, i) ==
    IF i = 0 THEN state
    ELSE PutRows(PutColumns(state, targetRow, cell.content, owner, cell.colspan),
                 targetRow + 1, cell, owner, i - 1)

\* The placement that writes a cell to its own row only.
PlaceCellOwnRow(state, rows, rowIndex, k) ==
    PutRows(state, rowIndex, rows[rowIndex][k], <<rowIndex, k>>, 1)

\* The callback of row.children.forEach for cell k of row rowIndex.
PlaceCell(state, rows, rowIndex, k) ==
    PutRows(state, rowIndex, rows[rowIndex][k], <<rowIndex, k>>,
            rows[rowIndex][k].rowspan)

\* The cells in the order rows.forEach visits them.
RECURSIVE CellPositions(_, _)
CellPositions(rows, r) ==
    IF r > Len(rows) THEN <<>>
    ELSE [k \in DOMAIN rows[r] |-> <<r, k>>] \o CellPositions(rows, r + 1)

RECURSIVE PlaceCells(_, _, _)
PlaceCells(state, rows, positions) ==
    IF positions = <<>> THEN state
    ELSE PlaceCells(PlaceCell(state, rows, positions[1][1], positions[1][2]),
                    rows, Tail(positions))

\* rows.forEach(...): the matrix and the column widths of a table.
BuildMatrix(rows) == PlaceCells(EmptyMatrix(rows), rows, CellPositions(rows, 1))

Repeat(c, n) == [i \in 1..n |-> c]

formatCell(content, columnIndex, columnWidths, tableFormatting) ==
    LET padded == <<" ">> \o content \o <<" ">>
        visibleLength == Len(StripFormatting(content))
    IN  IF ~tableFormatting.prettyPrint THEN padded
        ELSE IF columnIndex > Len(columnWidths) THEN padded
        ELSE IF \E i \in DOMAIN content : content[i] = LineFeed THEN padded
        ELSE LET totalWidth == columnWidths[columnIndex] + 2
                 space == IF totalWidth > visibleLength
                          THEN totalWidth - visibleLength ELSE 0
             IN  IF ~tableFormatting.centerText
                 THEN <<" ">> \o content
                      \o Repeat(" ", IF totalWidth - visibleLength - 1 > 0
                                     THEN totalWidth - visibleLength - 1 ELSE 0)
                 ELSE Repeat(" ", space \div 2) \o content
                      \o Repeat(" ", space - (space \div 2))

TableLine(cells) == <<"|">> \o Join(cells, <<"|">>) \o <<"|", LineFeed>>

RECURSIVE TableLines(_, _, _)
TableLines(rows, columnWidths, tableFormatting) ==
    IF rows = <<>> THEN <<>>
    ELSE TableLine([j \in DOMAIN rows[1] |->
                        formatCell(rows[1][j], j, columnWidths, tableFormatting)])
         \o TableLines(Tail(rows), columnWidths, tableFormatting)

\* '-'.repeat(Math.max(3, width) + 2)
SeparatorSegment(width) == Repeat("-", (IF width > 3 THEN width ELSE 3) + 2)

\* The markdown the rule builds from the matrix of cells.
TableMarkdown(tableMatrix, columnWidths, tableFormatting) ==
    IF tableMatrix # <<>>
    THEN <<LineFeed, LineFeed>>
         \o TableLines(<<tableMatrix[1]>>, columnWidths, tableFormatting)
         \o TableLine([c \in DOMAIN columnWidths |-> SeparatorSegment(columnWidths[c])])
         \o TableLines(Tail(tableMatrix), columnWidths, tableFormatting)
    ELSE <<LineFeed, LineFeed>>
         \o <<"|", " ", "N", "o", " ", "d", "a", "t", "a", " ", "a", "v", "a", "i",
              "l", "a", "b", "l", "e", " ", "|", LineFeed, "|", "-", "|", LineFeed>>

CellTexts == {<<>>, <<"a", "a", "a", "a">>, <<"|">>, <<"a", LineFeed, "a">>}

TableRowsOf(m) == [1..m -> CellTexts]

InitTable ==
    /\ OrchestrationAtRest
    /\ AtRest("table")
    /\ \E m \in 1..MaxCols, n \in 0..MaxRows :
       \E header \in TableRowsOf(m), data \in [1..n -> TableRowsOf(m)],
          hasThead \in BOOLEAN, prettyPrint \in BOOLEAN, centerText \in BOOLEAN :
          tbl = [table |-> [hasThead |-> hasThead,
                            thead |-> IF hasThead THEN header ELSE <<>>,
                            tbody |-> IF hasThead THEN data ELSE <<header>> \o data],
                 tableFormatting |-> [prettyPrint |-> prettyPrint, centerText |-> centerText],
                 columns |-> m, dataRows |-> n,
                 pc |-> "rows", tableMatrix |-> <<>>, columnWidths |-> <<>>,
                 markdown |-> <<>>]

\* rows.forEach: every cell is placed in the matrix and widens its column.
ProcessRows ==
    /\ tbl.pc = "rows"
    /\ LET rows == TableRows(tbl.table)
           built == BuildMatrix([r \in DOMAIN rows |->
                                    [k \in DOMAIN rows[r] |-> PlainCell(rows[r][k])]])
       IN  tbl' = [tbl EXCEPT !.pc = "build",
                              !.tableMatrix = built.tableMatrix,
                              !.columnWidths = built.columnWidths]
    /\ UNCHANGED notTblVars

\* Header, separator and data rows are written out.
BuildMarkdownTable ==
    /\ tbl.pc = "build"
    /\ tbl' = [tbl EXCEPT !.pc = "returned",
                          !.markdown = TableMarkdown(tbl.tableMatrix, tbl.columnWidths,
                                                     tbl.tableFormatting)]
    /\ UNCHANGED notTblVars

NextTable == ProcessRows \/ BuildMarkdownTable

SpecTable == InitTable /\ [][NextTable]_vars

\* ---------------------------------------------------------------------
\* The matrix of the table rule, cell by cell, for cells with spans.  A
\* table is written as its cells in document order, RowBreak closing a row.
\* ---------------------------------------------------------------------

MaxItems == 4

SpanValues == {1, 2}

MatrixTexts == {<<"a">>, <<"*", "a", "a", "*">>}

RowBreak == [content |-> <<>>, rowspan |-> 0, colspan |-> 0]

TableItems ==
    [content: MatrixTexts, rowspan: SpanValues, colspan: SpanValues] \cup {RowBreak}

RECURSIVE RowsOfItems(_, _)
RowsOfItems(items, row) ==
    IF items = <<>> THEN <<row>>
    ELSE IF Head(items) = RowBreak THEN <<row>> \o RowsOfItems(Tail(items), <<>>)
    ELSE RowsOfItems(Tail(items), Append(row, Head(items)))

InitMatrix ==
    /\ OrchestrationAtRest
    /\ AtRest("matrix")
    /\ \E n \in 0..MaxItems : \E items \in [1..n -> TableItems] :
          LET rows == RowsOfItems(items, <<>>)
              empty == EmptyMatrix(rows)
          IN  mx = [rows |-> rows, placed |-> 0,
                    tableMatrix |-> empty.tableMatrix,
                    owners |-> empty.owners,
                    columnWidths |-> empty.columnWidths]

\* One call of the callback of row.children.forEach: the next cell in
\* document order is placed.
PlaceNextCell ==
    /\ mx.placed < Len(CellPositions(mx.rows, 1))
    /\ LET at == CellPositions(mx.rows, 1)[mx.placed + 1]
           after == PlaceCell([tableMatrix |-> mx.tableMatrix, owners |-> mx.owners,
                               columnWidths |-> mx.columnWidths],
                              mx.rows, at[1], at[2])
       IN  mx' = [mx EXCEPT !.placed = @ + 1,
                            !.tableMatrix = after.tableMatrix,
                            !.owners = after.owners,
                            !.columnWidths = after.columnWidths]
    /\ UNCHANGED notMxVars

NextMatrix == PlaceNextCell

SpecMatrix == InitMatrix /\ [][NextMatrix]_vars

\* ---------------------------------------------------------------------
\* validateUri on the text of the URLs.  A URL is the sequence of its
\* parts: the scheme with its colon, "//", the host, then the slashes and
\* names of the path, and a query or a fragment with its mark.
\* ---------------------------------------------------------------------

Schemes == {"https:", "http:"}

\* new URL(href) succeeds: the text starts with a scheme.
IsAbsolute(href) == href # <<>> /\ href[1] \in Schemes

\* new URL(baseURI).origin
UrlOrigin(url) == SubSeq(url, 1, 3)

\* new URL(baseURI).href: the text of the URL, its empty path written "/".
UrlHref(url) ==
    IF Len(url) = 3 THEN url \o <<"/">>
    ELSE IF url[4] \in {"?", "#"} THEN UrlOrigin(url) \o <<"/">> \o Drop(url, 3)
    ELSE url

validateUriString(href, baseURI) ==
    IF IsAbsolute(href) THEN href
    ELSE LET base == UrlHref(baseURI)
         IN  IF href # <<>> /\ href[1] = "/"
             THEN UrlOrigin(baseURI) \o href
             ELSE base \o (IF base[Len(base)] = "/" THEN <<>> ELSE <<"/">>) \o href

BaseOrigins == {<<"https:", "//", "a.com">>, <<"http:", "//", "b.org">>}

BasePaths == {<<>>, <<"/", "b">>, <<"/", "b", "/">>, <<"/", "b", "/", "c">>}

BaseSuffixes == {<<>>, <<"?", "q">>, <<"#", "f">>}

Hrefs == {<<"https:", "//", "c.net", "/", "i.png">>, <<"http:", "//", "a.com">>,
          <<"/", "x">>, <<"/", "x", "/", "y">>, <<"x">>, <<"x", "/", "y">>}

InitUri ==
    /\ OrchestrationAtRest
    /\ AtRest("uri")
    /\ \E o \in BaseOrigins, p \in BasePaths, s \in BaseSuffixes, h \in Hrefs :
          uri = [href |-> h, baseURI |-> o \o p \o s, origin |-> o, path |-> p,
                 pc |-> "call", result |-> <<>>]

ValidateUri ==
    /\ uri.pc = "call"
    /\ uri' = [uri EXCEPT !.pc = "returned",
                          !.result = validateUriString(uri.href, uri.baseURI)]
    /\ UNCHANGED notUriVars

NextUri == ValidateUri

SpecUri == InitUri /\ [][NextUri]_vars

\* ---------------------------------------------------------------------
\* The final text of a conversion.  Zwsp (U+200B), Tab (U+0009) and Shy
\* (U+00AD) stand for the characters the last replace of turndown and of
\* orgdown removes; the line feed is not among them.
\* ---------------------------------------------------------------------

Zwsp == "zwsp"

Tab == "tab"

Shy == "shy"

SpecialChars == {Zwsp, Tab, Shy}

\* .replace(/[\u0000-\u0009\u000b\u000c\u000e-\u001f\u007f-\u009f...]/g, '')
StripSpecialChars(s) == RemoveChars(s, SpecialChars)

\* turndown: options.frontmatter + the converted content + options.backmatter,
\* then stripped.
turndown(content, options) ==
    StripSpecialChars(options.frontmatter \o content \o options.backmatter)

\* orgdown: the converted content, stripped.
orgdown(content) == StripSpecialChars(content)

\* convertArticleToOrg: the preamble is put before the text orgdown returned.
convertArticleToOrg(article, options) ==
    LET orgPreamble ==
            IF options.includeTemplate /\ options.orgPreambleTemplate # <<>>
            THEN textReplace(options.orgPreambleTemplate, article, Null)
                 \o <<LineFeed, LineFeed>>
            ELSE <<>>
    IN  orgPreamble \o orgdown(article.content)

OutputTexts == {<<"a">>, <<"a", Zwsp, "a">>, <<Tab, "a", LineFeed, Shy>>}

InitOutput ==
    /\ OrchestrationAtRest
    /\ AtRest("output")
    /\ \E fmt \in {"markdown", "org"}, tpl \in BOOLEAN,
          preamble \in {<<>>, Token(KeyText.title)},
          title \in OutputTexts, content \in OutputTexts :
          out = [article |-> [title |-> title, byline |-> <<>>,
                              content |-> content, keywords |-> Null],
                 options |-> [orgPreambleTemplate |-> preamble]
                             @@ [DefaultOptions EXCEPT !.outputFormat = fmt,
                                                       !.includeTemplate = tpl],
                 pc |-> "call", text |-> <<>>]

\* convertArticleToMarkdown for the Markdown format, up to its result's text.
ConvertToMarkdownText ==
    /\ out.pc = "call"
    /\ out.options.outputFormat = "markdown"
    /\ LET options == OptionsAfterConvert(out.options, out.article, "null")
       IN  out' = [out EXCEPT !.pc = "returned",
                              !.options = options,
                              !.text = turndown(out.article.content, options)]
    /\ UNCHANGED notOutVars

\* convertArticleToMarkdown for the Org format: convertArticleToOrg.
ConvertToOrgText ==
    /\ out.pc = "call"
    /\ out.options.outputFormat = "org"
    /\ LET options == OptionsAfterConvert(out.options, out.article, "null")
       IN  out' = [out EXCEPT !.pc = "returned",
                              !.options = options,
                              !.text = convertArticleToOrg(out.article, options)]
    /\ UNCHANGED notOutVars

NextOutput == ConvertToMarkdownText \/ ConvertToOrgText

SpecOutput == InitOutput /\ [][NextOutput]_vars

\* ============================================================ copyToClipboard
\* The argument is a string, or undefined: handleContextMenuCopy passes
\* result.markdown || result.org, which is undefined when the markdown is ""
\* and the result has no org field.
TextKinds == {"string", "undefined"}

\* What document.execCommand('copy') does: its return value, or it throws.
ExecOutcomes == {"true", "false", "throws"}

\* console.log(..., text.substring(0, 100) + '...') after a tier succeeded:
\* a TypeError when text is undefined.
LogThrows(text) == text = "undefined"

InitCopy ==
    /\ OrchestrationAtRest
    /\ AtRest("copy")
    /\ \E text \in TextKinds, hasClipboard \in BOOLEAN, writeResolves \in BOOLEAN,
          hasTextArea \in BOOLEAN, execCommand \in ExecOutcomes :
          cb = [pc |-> "call", text |-> text, hasClipboard |-> hasClipboard,
                writeResolves |-> writeResolves, hasTextArea |-> hasTextArea,
                execCommand |-> execCommand,
                tried |-> {}, copied |-> {}, result |-> "none"]

\* The first tier: navigator.clipboard.writeText inside its try; the catch
\* falls through to the second tier.
TryClipboardApi ==
    /\ "text" \in DOMAIN cb
    /\ cb.pc = "call"
    /\ cb' = IF ~cb.hasClipboard
             THEN [cb EXCEPT !.pc = "fallback"]
             ELSE IF ~cb.writeResolves
             THEN [cb EXCEPT !.pc = "fallback", !.tried = @ \cup {"clipboard"}]
             ELSE IF LogThrows(cb.text)
             THEN [cb EXCEPT !.pc = "fallback", !.tried = @ \cup {"clipboard"},
                             !.copied = @ \cup {"clipboard"}]
             ELSE [cb EXCEPT !.pc = "done", !.tried = @ \cup {"clipboard"},
                             !.copied = @ \cup {"clipboard"}, !.result = "true"]
    /\ UNCHANGED notCbVars

\* The second tier: the textarea, select and document.execCommand('copy')
\* inside its try; the catch returns false.
TryExecCommand ==
    /\ "text" \in DOMAIN cb
    /\ cb.pc = "fallback"
    /\ cb' = IF ~cb.hasTextArea
             THEN [cb EXCEPT !.pc = "done", !.result = "false"]
             ELSE IF cb.execCommand = "throws"
             THEN [cb EXCEPT !.pc = "done", !.tried = @ \cup {"execCommand"},
                             !.result = "false"]
             ELSE IF cb.execCommand = "false"
             THEN [cb EXCEPT !.pc = "done", !.tried = @ \cup {"execCommand"},
                             !.result = "false"]
             ELSE IF LogThrows(cb.text)
             THEN [cb EXCEPT !.pc = "done", !.tried = @ \cup {"execCommand"},
                             !.copied = @ \cup {"execCommand"}, !.result = "false"]
             ELSE [cb EXCEPT !.pc = "done", !.tried = @ \cup {"execCommand"},
                             !.copied = @ \cup {"execCommand"}, !.result = "true"]
    /\ UNCHANGED notCbVars

NextCopy == TryClipboardApi \/ TryExecCommand

SpecCopy == InitCopy /\ [][NextCopy]_vars

\* ========================================================= fenced code blocks
MaxCodeLen == 8

\* options.fence.charAt(0); every other character of the code is "x" or a
\* line feed.
FenceChar == "fence"

CodeChars == {FenceChar, "x", LineFeed}

Codes == UNION {[1..n -> CodeChars] : n \in 0..MaxCodeLen}

\* String.prototype.trim, over the white space the code can hold.
RECURSIVE Trim(_)
Trim(s) ==
    IF s = <<>> THEN s
    ELSE IF Head(s) = LineFeed THEN Trim(Tail(s))
    ELSE IF s[Len(s)] = LineFeed THEN Trim(SubSeq(s, 1, Len(s) - 1))
    ELSE s

\* code.replace(/\n$/, '')
DropFinalLineFeed(s) ==
    IF s # <<>> /\ s[Len(s)] = LineFeed THEN SubSeq(s, 1, Len(s) - 1) ELSE s

\* The fence characters a line starts with.
RECURSIVE LeadingRun(_)
LeadingRun(line) ==
    IF line # <<>> /\ Head(line) = FenceChar THEN 1 + LeadingRun(Tail(line)) ELSE 0

\* The matches of /^c{3,}/gm in the code, in order: their lengths.
FenceMatches(code) ==
    LET lines == Split(code, LineFeed)
        runs == [i \in DOMAIN lines |-> LeadingRun(lines[i])]
    IN  SelectSeq(runs, LAMBDA n : n >= 3)

\* The while loop over the matches.
RECURSIVE FenceSizeAfter(_, _)
FenceSizeAfter(matches, fenceSize) ==
    IF matches = <<>> THEN fenceSize
    ELSE FenceSizeAfter(Tail(matches),
                        IF Head(matches) >= fenceSize THEN Head(matches) + 1 ELSE fenceSize)

\* convertToFencedCodeBlock: the fence and the body between the two fences.
convertToFencedCodeBlock(code) ==
    [fence |-> FenceSizeAfter(FenceMatches(code), 3), body |-> DropFinalLineFeed(code)]

\* processCodeBlock without preserveCodeFormatting: node.textContent.trim().
processCodeBlock(code) == Trim(code)

\* The fencedCodeBlock rule: the fence is repeat(fenceChar, 3).
fencedCodeBlock(code) ==
    [fence |-> 3, body |-> processCodeBlock(code)]

InitFence ==
    /\ OrchestrationAtRest
    /\ AtRest("fence")
    /\ \E code \in Codes : fc = [pc |-> "call", code |-> code]

\* A PRE whose first child is CODE reaches the fencedCodeBlock rule.
FencedCodeBlockRule ==
    /\ "code" \in DOMAIN fc
    /\ fc.pc = "call"
    /\ fc' = [pc |-> "done", code |-> fc.code, rule |-> "fencedCodeBlock",
              block |-> fencedCodeBlock(fc.code)]
    /\ UNCHANGED notFcVars

\* Any other PRE reaches the pre rule.
PreRule ==
    /\ "code" \in DOMAIN fc
    /\ fc.pc = "call"
    /\ fc' = [pc |-> "done", code |-> fc.code, rule |-> "pre",
              block |-> convertToFencedCodeBlock(fc.code)]
    /\ UNCHANGED notFcVars

NextFence == FencedCodeBlockRule \/ PreRule

SpecFence == InitFence /\ [][NextFence]_vars

\* ================================================= context-menu selection
\* One context-menu action on a page, run in both topologies.  On Chrome the
\* service worker sends process-context-menu, the offscreen document's
\* getArticleFromContent asks for the tab content (get-tab-content) and the
\* service worker answers with article-content-result; on Firefox the
\* service worker's getArticleFromContent captures and converts inline.
MenuItems == {"download-markdown-selection", "copy-markdown-selection",
              "download-markdown-all", "copy-markdown-all"}

SelectionItems == {"download-markdown-selection", "copy-markdown-selection"}

MenuPages == [dom : {"page", "post"}, selection : {"", "text"}]

\* article.content once the caller has overwritten it with the selection.
SelectedContent(selection) == <<"selection", selection>>

InitMenu ==
    /\ OrchestrationAtRest
    /\ AtRest("menu")
    /\ \E page \in MenuPages, item \in MenuItems :
          cm = [pc |-> "menu", page |-> page, item |-> item,
                run |-> [t \in Topologies |->
                           [pc |-> "idle", message |-> NoMessage, content |-> <<"none">>]]]

\* downloadMarkdownFromContext / copyMarkdownFromContext: Chrome sends
\* process-context-menu with the info; Firefox goes on in the service worker.
MenuClicked(t) ==
    /\ cm.pc = "menu"
    /\ cm.run[t].pc = "idle"
    /\ cm' = IF t = "chrome"
             THEN [cm EXCEPT !.run[t].pc = "sent",
                             !.run[t].message = [type |-> "process-context-menu",
                                                 menuItemId |-> cm.item]]
             ELSE [cm EXCEPT !.run[t].pc = "worker"]
    /\ UNCHANGED notCmVars

\* offscreen handleContextMenuDownload / handleContextMenuCopy up to the send
\* of getArticleFromContent(tabId, selection, options).
OffscreenAsksTabContent(t) ==
    /\ cm.pc = "menu"
    /\ cm.run[t].message.type = "process-context-menu"
    /\ cm' = [cm EXCEPT !.run[t].message =
                 [type |-> "get-tab-content",
                  selection |-> cm.run[t].message.menuItemId \in SelectionItems]]
    /\ UNCHANGED notCmVars

\* service worker getTabContentForOffscreen: the captured DOM, and the
\* selection when it was asked for.
getTabContentForOffscreen(t) ==
    /\ cm.pc = "menu"
    /\ cm.run[t].message.type = "get-tab-content"
    /\ cm' = [cm EXCEPT !.run[t].message =
                 [type |-> "article-content-result",
                  article |-> [dom |-> cm.page.dom,
                               selection |-> IF cm.run[t].message.selection
                                             THEN cm.page.selection ELSE "null"]]]
    /\ UNCHANGED notCmVars

\* offscreen getArticleFromContent after the reply: the article is
\* getArticleFromDom(article.dom, options); article.selection is not read.
OffscreenArticleFromReply(t) ==
    /\ cm.pc = "menu"
    /\ cm.run[t].message.type = "article-content-result"
    /\ LET got == getArticleFromDom(cm.run[t].message.article.dom, StoredOptions)
       IN  cm' = [cm EXCEPT !.run[t].pc = "done",
                            !.run[t].message = NoMessage,
                            !.run[t].content = got.article.content]
    /\ UNCHANGED notCmVars

\* service worker getArticleFromContent, Firefox branch: the selection
\* replaces the content when it was asked for and the page has one.
WorkerArticleFromContent(t) ==
    /\ cm.pc = "menu"
    /\ cm.run[t].pc = "worker"
    /\ LET got == getArticleFromDom(cm.page.dom, StoredOptions)
           selection == cm.item \in SelectionItems
       IN  cm' = [cm EXCEPT !.run[t].pc = "done",
                            !.run[t].content =
                                IF selection /\ cm.page.selection # ""
                                THEN SelectedContent(cm.page.selection)
                                ELSE got.article.content]
    /\ UNCHANGED notCmVars

NextMenu ==
    \E t \in Topologies :
        \/ MenuClicked(t)
        \/ OffscreenAsksTabContent(t)
        \/ getTabContentForOffscreen(t)
        \/ OffscreenArticleFromReply(t)
        \/ WorkerArticleFromContent(t)

SpecMenu == InitMenu /\ [][NextMenu]_vars

\* ============================================================ getImageFilename
\* A source is a sequence of lexemes: "data:", the media type's two names
\* around "/", ";base64," and the characters of the payload.
MaxPayloadLen == 3

PayloadChars == {"A", "/", "?"}

Subtypes == {"png", "gif"}

Base64Mark == ";base64,"

DataUris ==
    {<<"data:", "image", "/", subtype, Base64Mark>> \o payload :
        subtype \in Subtypes,
        payload \in UNION {[1..n -> PayloadChars] : n \in 0..MaxPayloadLen}}

\* String.prototype.indexOf and lastIndexOf of one lexeme: its 0-based
\* position, or -1.
IndexOf(s, c) ==
    IF \E i \in DOMAIN s : s[i] = c
    THEN Min({i \in DOMAIN s : s[i] = c}) - 1 ELSE -1

LastIndexOf(s, c) ==
    IF \E i \in DOMAIN s : s[i] = c
    THEN Max({i \in DOMAIN s : s[i] = c}) - 1 ELSE -1

\* String.prototype.substring(start, end): both clamped to 0..length and
\* swapped when start > end.
Substring(s, start, end) ==
    LET Clamp(n) == IF n < 0 THEN 0 ELSE IF n > Len(s) THEN Len(s) ELSE n
        lo == IF Clamp(start) <= Clamp(end) THEN Clamp(start) ELSE Clamp(end)
        hi == IF Clamp(start) <= Clamp(end) THEN Clamp(end) ELSE Clamp(start)
    IN  SubSeq(s, lo + 1, hi)

\* The prefix getImageFilename puts before the name.
ImagePrefix(options, prependFilePath) ==
    IF prependFilePath /\ IndexOf(options.title, "/") >= 0
    THEN Substring(options.title, 0, LastIndexOf(options.title, "/") + 1) \o options.imagePrefix
    ELSE IF prependFilePath
    THEN options.title
           \o (IF options.imagePrefix # <<>> /\ Head(options.imagePrefix) = "/"
               THEN <<>> ELSE <<"/">>)
           \o options.imagePrefix
    ELSE options.imagePrefix

\* The name before the prefix is put in front of it.
ImageName(src, options) ==
    LET slashPos == LastIndexOf(src, "/")
        queryPos == IndexOf(src, "?")
        cut == Substring(src, slashPos + 1, IF queryPos > 0 THEN queryPos ELSE Len(src))
        named == IF IndexOf(cut, Base64Mark) >= 0
                 THEN <<"image", ".">> \o Substring(cut, 0, IndexOf(cut, Base64Mark))
                 ELSE cut
        extension == Substring(named, LastIndexOf(named, "."), Len(named))
        filename == IF extension = named THEN named \o <<".", "idunno">> ELSE named
    IN  generateValidFileName(filename, options.disallowedChars)

getImageFilenameString(src, options, prependFilePath) ==
    ImagePrefix(options, prependFilePath) \o ImageName(src, options)

InitImageName ==
    /\ OrchestrationAtRest
    /\ AtRest("imageName")
    /\ \E src \in DataUris, title \in {<<"t">>, <<"d", "/", "t">>},
          imagePrefix \in {<<>>, <<"p", "/">>, <<"/", "p", "/">>},
          prependFilePath \in BOOLEAN :
          inm = [pc |-> "call", src |-> src, prependFilePath |-> prependFilePath,
                 options |-> [title |-> title, imagePrefix |-> imagePrefix,
                              disallowedChars |-> <<"[", "]", "#", "^">>]]

GetImageFilename ==
    /\ "src" \in DOMAIN inm
    /\ inm.pc = "call"
    /\ inm' = [pc |-> "returned", src |-> inm.src,
               prependFilePath |-> inm.prependFilePath, options |-> inm.options,
               name |-> getImageFilenameString(inm.src, inm.options, inm.prependFilePath)]
    /\ UNCHANGED notInmVars

NextImageName == GetImageFilename

SpecImageName == InitImageName /\ [][NextImageName]_vars

\* ================================================== the meta tags of a page
\* The article after Readability and the URL fields: title is a string,
\* possibly empty; byline is a string or null; port is a string, empty for
\* the scheme's default port.  A meta tag is <<key, content>>.
MaxMetaTags == 2

JsNull == "null"

ParsedArticles ==
    [title : {"", "T"}, byline : {JsNull, "B"}, port : {"", "8080"}]

MetaKeys == {"title", "byline", "port", "author"}

MetaTags == MetaKeys \X {"", "m1", "m2"}

MetaLists == UNION {[1..n -> MetaTags] : n \in 0..MaxMetaTags}

\* !value for the values a field can hold.
IsFalsy(value) == value \in {"", JsNull}

HasTruthy(article, key) == key \in DOMAIN article /\ ~IsFalsy(article[key])

\* if (key && val && !article[key]) article[key] = val
SetFromMeta(article, key, val) ==
    IF ~IsFalsy(val) /\ ~HasTruthy(article, key)
    THEN [k \in DOMAIN article \cup {key} |-> IF k = key THEN val ELSE article[k]]
    ELSE article

InitMeta ==
    /\ OrchestrationAtRest
    /\ AtRest("meta")
    /\ \E parsed \in ParsedArticles, tags \in MetaLists :
          md = [pc |-> "metas", parsed |-> parsed, article |-> parsed,
                tags |-> tags, seen |-> <<>>]

\* One turn of the forEach over the meta tags of the head.
VisitMetaTag ==
    /\ "tags" \in DOMAIN md
    /\ md.tags # <<>>
    /\ md' = [md EXCEPT !.article = SetFromMeta(@, Head(md.tags)[1], Head(md.tags)[2]),
                        !.tags = Tail(@),
                        !.seen = Append(@, Head(md.tags))]
    /\ UNCHANGED notMdVars

\* getArticleFromDom returns the article.
ArticleReturned ==
    /\ "tags" \in DOMAIN md
    /\ md.pc = "metas"
    /\ md.tags = <<>>
    /\ md' = [md EXCEPT !.pc = "returned"]
    /\ UNCHANGED notMdVars

NextMeta == VisitMetaTag \/ ArticleReturned

SpecMeta == InitMeta /\ [][NextMeta]_vars

\* ============================================ ensureOffscreenDocumentExists
\* Requests of the service worker that each call
\* ensureOffscreenDocumentExists on Chrome.  The function awaits
\* chrome.runtime.getContexts and then chrome.offscreen.createDocument; other
\* handlers run at each await.
MaxCallers == 3

InitEnsure ==
    /\ OrchestrationAtRest
    /\ AtRest("ensure")
    /\ \E document \in {"none", "exists"} :
          oc = [pc |-> "run", document |-> document,
                caller |-> [c \in 1..MaxCallers |-> "idle"],
                attempts |-> <<>>]

\* A request handler (clip, download, context menu) calls the function:
\* getContexts is asked for.
EnsureCalled(c) ==
    /\ "caller" \in DOMAIN oc
    /\ oc.caller[c] = "idle"
    /\ oc' = [oc EXCEPT !.caller[c] = "getContexts"]
    /\ UNCHANGED notOcVars

\* getContexts answers: return when a context is listed.  Whether a document
\* still being created is listed is up to the platform.
ContextsReturned(c) ==
    /\ "caller" \in DOMAIN oc
    /\ oc.caller[c] = "getContexts"
    /\ \E listed \in BOOLEAN :
          /\ oc.document = "exists" => listed
          /\ oc.document = "none" => ~listed
          /\ oc' = [oc EXCEPT !.caller[c] = IF listed THEN "returned" ELSE "createDocument"]
    /\ UNCHANGED notOcVars

\* chrome.offscreen.createDocument is called: it starts the creation, or
\* rejects when a document exists or is being created, which rejects the
\* function and the handler that awaits it.
CreateDocument(c) ==
    /\ "caller" \in DOMAIN oc
    /\ oc.caller[c] = "createDocument"
    /\ oc' = IF oc.document = "none"
             THEN [oc EXCEPT !.caller[c] = "creating", !.document = "creating",
                             !.attempts = Append(@, oc.document)]
             ELSE [oc EXCEPT !.caller[c] = "rejected",
                             !.attempts = Append(@, oc.document)]
    /\ UNCHANGED notOcVars

\* The document has loaded: createDocument resolves and the function returns.
DocumentCreated(c) ==
    /\ "caller" \in DOMAIN oc
    /\ oc.caller[c] = "creating"
    /\ oc' = [oc EXCEPT !.caller[c] = "returned", !.document = "exists"]
    /\ UNCHANGED notOcVars

NextEnsure ==
    \E c \in 1..MaxCallers :
        \/ EnsureCalled(c)
        \/ ContextsReturned(c)
        \/ CreateDocument(c)
        \/ DocumentCreated(c)

SpecEnsure == InitEnsure /\ [][NextEnsure]_vars

\* ====================================================== download lifecycle claims
Terminal(id) == downloads[id].state \in {"complete", "interrupted"}

\* The downloads the extension started and tracks.
Tracked(id) == job[id].kind # "foreign"

\* The service worker and the offscreen document have nothing left to do.
Quiescent ==
    /\ swInbox = <<>>
    /\ offInbox = <<>>
    /\ \A j \in 1..MaxJobs : job[j].pc \in {"idle", "end"}

ReleaseCalls(url) == Cardinality({i \in 1..Len(revoked) : revoked[i] = url})

\* C1: once the platform has reported a tracked download complete or
\* interrupted, no record of it remains in markSnipDownloads, activeDownloads or
\* markSnipUrls.
C1_NoRecordAfterTerminal ==
    \A id \in 1..MaxJobs :
        Terminal(id) /\ Tracked(id) =>
            /\ ~MapHas(markSnipDownloads, id)
            /\ ~MapHas(activeDownloads, id)
            /\ ~MapHas(markSnipUrls, downloads[id].url)

\* C2: for every tracked download whose URL is an object URL, once the platform
\* has reported it terminal and every message has been handled, revokeObjectURL
\* has been called on that URL exactly once.
C2_ReleasedExactlyOnce ==
    \A id \in 1..MaxJobs :
        Terminal(id) /\ Tracked(id) /\ StartsWithBlob(downloads[id].url) /\ Quiescent
            => ReleaseCalls(downloads[id].url) = 1

\* C6: whenever the platform download call threw in the strategy in use, the
\* next strategy of the chain has been attempted by the time the request ends.
C6_NextStrategyAttempted ==
    \A j \in 1..MaxJobs :
        job[j].pc = "end" /\ job[j].threw /\ job[j].kind \notin {"imgMsg", "imgDirect"}
            => Len(job[j].attempts) >= 2

\* C7: for every download handed to the platform download API, a URL-keyed
\* record existed before the call, and once the platform has returned the
\* identifier (and the caller has resumed) the record is under the identifier
\* and no longer under the URL.
C7_UrlRecordMigrated ==
    \A j \in 1..MaxJobs :
        (/\ job[j].pc = "end"
         /\ job[j].id # 0
         /\ job[j].kind # "foreign"
         /\ ~Terminal(job[j].id))
            => /\ job[j].tracked
               /\ MapHas(markSnipDownloads, job[j].id)
               /\ ~MapHas(markSnipUrls, job[j].url)

\* C8: for every filename-determination event handleFilenameConflict answers
\* exactly once: with the recorded intended filename when the identifier is in
\* markSnipDownloads, with no override when it is not.
C8_AnswersOnce ==
    \A id \in 1..MaxJobs :
        downloads[id].asked =>
            /\ Len(downloads[id].answers) = 1
            /\ IF downloads[id].idTracked
               THEN downloads[id].answers[1] = [filename |-> Filename(id),
                                                conflictAction |-> "uniquify"]
               ELSE downloads[id].answers[1] = NoOverride

\* A tracked download and a download of another origin have both been answered.
C8_Witness ==
    \E i, k \in 1..MaxJobs :
        /\ downloads[i].asked /\ downloads[i].idTracked
        /\ downloads[k].asked /\ ~downloads[k].idTracked
        /\ job[k].kind = "foreign"

\* C9: when the filename-determination event arrives while the record is still
\* only URL-keyed, the hook supplies the intended filename as the override.
C9_OverrideFromUrlRecord ==
    \A id \in 1..MaxJobs :
        downloads[id].asked /\ ~downloads[id].idTracked /\ downloads[id].urlTracked
            => downloads[id].answers = <<[filename |-> Filename(id),
                                         conflictAction |-> "uniquify"]>>

\* ============================================================ request claims
\* The wait of request r inside getArticleFromContent, in either context.
IsArticleWait(ctx, r) ==
    IF ctx = "sw" THEN req[r].kind = "swArticle" /\ swWait[r].state # "unused"
                  ELSE offWait[r].state # "unused"

ArticleWait(ctx, r) == IF ctx = "sw" THEN swWait[r] ELSE offWait[r]

Replies(w) == {i \in DOMAIN w.calls : w.calls[i] = "reply"}

\* C3: a getArticleFromContent request, in the service worker or in the
\* offscreen document, is settled exactly once, by the first reply of its type
\* and requestId or by the timer, whichever comes first; its listener is gone
\* from that moment, and a matching reply that comes after the timeout makes no
\* resolve or reject call and leaves the outcome as it was.
C3_SettledExactlyOnce ==
    \A ctx \in {"sw", "off"}, r \in 1..MaxReqs :
        IsArticleWait(ctx, r) =>
            LET w == ArticleWait(ctx, r)
            IN  /\ Settled(w) <=> w.calls # <<>>
                /\ Settled(w) => ~w.registered
                /\ Cardinality(Replies(w)) <= 1
                /\ w.calls # <<>> /\ w.calls[1] = "timeout"
                       => w.calls = <<"timeout">> /\ w.state = "rejected" /\ w.by = -1
                /\ w.calls # <<>> /\ w.calls[1] = "reply" => w.by = r

\* A reply came after the timeout of its request, in each context.
C3_Witness ==
    \A ctx \in {"sw", "off"} :
        \E r \in 1..MaxReqs :
            /\ IsArticleWait(ctx, r)
            /\ ArticleWait(ctx, r).late
            /\ ArticleWait(ctx, r).calls = <<"timeout">>

\* C4: a pending wait is settled only by the reply produced for its own
\* request (or by its timer), also with two requests in flight at once.
C4_SettledByOwnReply ==
    \A r \in 1..MaxReqs :
        /\ Settled(swWait[r]) => swWait[r].by \in {-1, r}
        /\ Settled(offWait[r]) => offWait[r].by \in {-1, r}

\* C5: every request started by getArticleFromContent (either context) or by
\* downloadMarkdownFromContext eventually ends, resolved or rejected, when
\* messages are delivered and timers fire.
C5_EventuallyTerminal ==
    \A r \in 1..MaxReqs :
        (req[r].pc # "idle") ~> (req[r].pc = "done" /\ req[r].outcome \in {"resolved", "rejected"})

\* A request ended by its timer after the tab capture failed and no reply was
\* sent.
C5_Witness ==
    \E r \in 1..MaxReqs :
        /\ req[r].kind = "swArticle"
        /\ req[r].pc = "done"
        /\ req[r].outcome = "rejected"
        /\ swWait[r].calls = <<"timeout">>
        /\ ~swWait[r].late
        /\ rqSW = <<>> /\ rqOff = <<>>

\* ============================================================== batch claims
\* The conversion of batch item r has been requested and has not finished.
InFlight(r) ==
    \/ req[r].kind = "popupItem" /\ req[r].off = "requested"
    \/ req[r].kind = "ctxDownload" /\ swWait[r].state # "unused" /\ req[r].off # "done"

\* C10: during a popup batch and during "download all tabs" at most one tab's
\* conversion is in flight at any time, also after the previous tab's wait
\* ended by timeout.
C10_OneConversionInFlight ==
    Cardinality({r \in 1..MaxReqs : InFlight(r)}) <= 1

\* Item r of the batch has failed: its tab did not load, or its request ended
\* rejected (capture failure, conversion error or reply timeout).
ItemFailed(r) ==
    \/ tabsLoaded = -1
    \/ req[r].pc = "done" /\ req[r].outcome = "rejected"

\* C11: in a batch (popup batch conversion, "download all tabs") a failure on
\* one item does not stop the batch: every later item is still processed.
C11_RemainingItemsProcessed ==
    \A r, k \in 1..MaxReqs :
        r < k => (ItemFailed(r) ~> (req[k].pc = "done"))

\* ========================================================= conversion claims
\* C12: a failed fetch or download of one image never makes the document's
\* conversion fail: the conversion fails only if no image fetch failed.
C12_ImageFailureTolerated ==
    cvResult = "failed" => \A src \in DOMAIN fetched : fetched[src] # "failed"

Injective(f) == \A x, y \in DOMAIN f : x # y => f[x] # f[y]

\* C13: at every point of a conversion with image downloading enabled the
\* manifest maps distinct sources to pairwise distinct filenames, each ending
\* in the extension of the name computed for its source.
C13_ManifestFilenamesDistinct ==
    /\ Injective(imageList)
    /\ Injective(newImageList)
    /\ \A src \in DOMAIN imageList :
        imageList[src][Len(imageList[src])]
            = getImageFilename(src)[Len(getImageFilename(src))]

\* ---------------------------------------------------------------------
\* Claims about one clip request
\* ---------------------------------------------------------------------

ClipFinished(t) == clip[t].pc = "sent" /\ clip[t].message = NoMessage

\* C14: for the same captured DOM, selection and options, the popup is
\* shown the same display.md result (text, title, image manifest, clips
\* folder) in the three-context and in the two-context topology.
C14_SameResultInBothTopologies ==
    (\A t \in Topologies : ClipFinished(t))
        => clip["chrome"].popup = clip["firefox"].popup

\* C15: when the conversion fails in the offscreen document, the popup that
\* asked shows the error text and no longer waits.
C15_WorkerErrorShownInPopup ==
    (ClipFinished("chrome") /\ clip["chrome"].failed)
        => /\ ~clip["chrome"].popup.spinner
           /\ clip["chrome"].popup.editor # <<"none">>

\* C24: when Readability extracts nothing from the page (parse returns
\* null), getArticleFromDom completes: the conversion in the offscreen
\* document does not fail on it.
C24_NothingExtractedIsNotFatal ==
    (clipInput.dom = Unreadable /\ clipInput.convertOk) => ~clip["chrome"].failed

\* ---------------------------------------------------------------------
\* Claims about generateValidFileName
\* ---------------------------------------------------------------------

Chars(s) == {s[i] : i \in DOMAIN s}

Falsy(v) == v = Null \/ v = <<>>

\* C19: the result of generateValidFileName for a non-empty input holds
\* none of / ? < > \ : * | ", no non-breaking space and no character of
\* the disallow-list; an empty or null input is returned as it is.
C19_ValidFileName ==
    fn.pc = "returned" =>
        IF Falsy(fn.title)
        THEN fn.name = fn.title
        ELSE /\ Chars(fn.name) \cap IllegalChars = {}
             /\ Nbsp \notin Chars(fn.name)
             /\ ~Falsy(fn.disallowedChars)
                    => Chars(fn.name) \cap Chars(fn.disallowedChars) = {}

C19_Witness ==
    /\ fn.pc = "returned"
    /\ fn.title = <<"/", Nbsp, "#">>
    /\ fn.disallowedChars = <<"[", "]", "#", "^">>
    /\ fn.name = <<" ">>

\* ---------------------------------------------------------------------
\* Claims about textReplace
\* ---------------------------------------------------------------------

HasToken(s) == \E i, j \in DOMAIN s : i < j /\ s[i] = "{" /\ s[j] = "}"

\* C17: for every template built from literal text and the known tokens,
\* and every article, what textReplace returns holds no {...} token.
C17_NoUnresolvedToken == tr.pc = "returned" => ~HasToken(tr.string)

\* C18: a substituted value that itself holds token syntax appears as it
\* is in the output: for the template {title}, without a disallow-list,
\* textReplace returns the title.
C18_ValueAppearsLiterally ==
    (/\ tr.pc = "returned"
     /\ tr.template = Token(KeyText.title)
     /\ tr.disallowedChars = Null)
        => tr.string = tr.article.title

\* ---------------------------------------------------------------------
\* Claims about the options record
\* ---------------------------------------------------------------------

FrameFields == {"downloadImages", "disallowedChars", "outputFormat",
                "includeTemplate", "frontmatter", "backmatter"}

\* C16: a conversion leaves every field but imagePrefix of the options
\* record it is given, and of the shared default options, as it was, and
\* every conversion substitutes the original frontmatter template.
C16_OptionsUnchanged ==
    /\ \A f \in FrameFields :
          /\ opt.provided[f] = opt.providedAtFirst[f]
          /\ opt.defaults[f] = opt.defaultsAtFirst[f]
    /\ opt.template # Null => opt.template = DefaultOptions.frontmatter

\* ---------------------------------------------------------------------
\* Claims about the table rule
\* ---------------------------------------------------------------------

NonEmptyLines(s) ==
    LET NonEmpty(line) == line # <<>> IN SelectSeq(Split(s, LineFeed), NonEmpty)

Pipes(line) == Cardinality({i \in DOMAIN line : line[i] = "|"})

\* C20: a table with a header row, N data rows and M columns, without
\* spans, is written as N+2 lines, each with M+1 pipes around its M cells.
C20_TableShape ==
    tbl.pc = "returned" =>
        LET lines == NonEmptyLines(tbl.markdown)
        IN  /\ Len(lines) = tbl.dataRows + 2
            /\ \A i \in DOMAIN lines : Pipes(lines[i]) = tbl.columns + 1

NoLineBreakInCells ==
    \A r \in DOMAIN tbl.tableMatrix : \A c \in DOMAIN tbl.tableMatrix[r] :
        LineFeed \notin Chars(tbl.tableMatrix[r][c])

\* C28: with prettyPrint and no line break in a cell, every cell of a
\* column, the header's included, is written as wide as the column's
\* separator segment, centred or left-justified.
C28_ColumnsAligned ==
    (/\ tbl.pc = "returned"
     /\ tbl.tableFormatting.prettyPrint
     /\ NoLineBreakInCells)
        => \A r \in DOMAIN tbl.tableMatrix : \A c \in DOMAIN tbl.tableMatrix[r] :
              Len(StripFormatting(formatCell(tbl.tableMatrix[r][c], c, tbl.columnWidths,
                                             tbl.tableFormatting)))
                  = Len(SeparatorSegment(tbl.columnWidths[c]))

\* ---------------------------------------------------------------------
\* Claims about the matrix of the table rule
\* ---------------------------------------------------------------------

MatrixBuilt == mx.placed = Len(CellPositions(mx.rows, 1))

\* The table of two rows whose only cell spans two rows and two columns.
OneCellSpanningAll(content) ==
    mx.rows = <<<<[content |-> content, rowspan |-> 2, colspan |-> 2]>>, <<>>>>

\* C21: for the table of 2 rows and 2 columns whose single cell has
\* rowspan 2 and colspan 2, the matrix holds the cell's text at all four
\* places.
C21_SpanFillsAllFour ==
    \A content \in MatrixTexts :
        (OneCellSpanningAll(content) /\ MatrixBuilt)
            => mx.tableMatrix = <<<<content, content>>, <<content, content>>>>

C21_Witness ==
    /\ OneCellSpanningAll(<<"*", "a", "a", "*">>)
    /\ MatrixBuilt
    /\ mx.tableMatrix[2][2] = <<"*", "a", "a", "*">>

Footprint(owner) ==
    {<<i, j>> \in (DOMAIN mx.owners) \X (1..(2 * MaxItems)) :
        j <= Len(mx.owners[i]) /\ mx.owners[i][j] = owner}

\* C27: the places a cell fills form a rectangle: with rowspan r and
\* colspan c and its first place in column k of its own row, it fills
\* columns k..k+c-1 of each of the r rows from its own row on.
C27_FootprintIsRectangle ==
    \A p \in 1..mx.placed :
        LET at == CellPositions(mx.rows, 1)[p]
            cell == mx.rows[at[1]][at[2]]
            k == Min({j \in 1..Len(mx.owners[at[1]]) : mx.owners[at[1]][j] = at})
        IN  Footprint(at)
                = (at[1]..(at[1] + cell.rowspan - 1)) \X (k..(k + cell.colspan - 1))

ColumnCells(c) ==
    {mx.tableMatrix[r][c] : r \in {q \in DOMAIN mx.tableMatrix : c <= Len(mx.tableMatrix[q])}}

\* C29: while the matrix is built and after, columnWidths has one width
\* for every column that holds a cell, and it is the greatest visible
\* length of the cells placed in that column.
C29_WidthIsMaxVisibleLength ==
    /\ \A r \in DOMAIN mx.tableMatrix : Len(mx.tableMatrix[r]) <= Len(mx.columnWidths)
    /\ \A c \in DOMAIN mx.columnWidths :
          /\ ColumnCells(c) # {}
          /\ mx.columnWidths[c] = Max({VisibleLength(t) : t \in ColumnCells(c)})

C29_Witness ==
    /\ MatrixBuilt
    /\ Len(mx.tableMatrix) = 2
    /\ mx.tableMatrix[1] = <<<<"a">>>>
    /\ mx.tableMatrix[2] = <<<<"*", "a", "a", "*">>>>
    /\ mx.columnWidths = <<2>>

\* ---------------------------------------------------------------------
\* Claims about validateUri
\* ---------------------------------------------------------------------

\* The base's origin and path, the empty path written "/".
OriginAndPath == uri.origin \o (IF uri.path = <<>> THEN <<"/">> ELSE uri.path)

\* C22: validateUri returns an absolute href as it is, puts a root-relative
\* href after the base's origin, and any other relative href after the
\* base's full path with one slash between.
C22_ValidateUri ==
    uri.pc = "returned" =>
        IF IsAbsolute(uri.href) THEN uri.result = uri.href
        ELSE IF uri.href[1] = "/" THEN uri.result = uri.origin \o uri.href
        ELSE uri.result
                = OriginAndPath
                  \o (IF OriginAndPath[Len(OriginAndPath)] = "/" THEN <<>> ELSE <<"/">>)
                  \o uri.href

\* ---------------------------------------------------------------------
\* Claims about the final text of a conversion
\* ---------------------------------------------------------------------

\* C23: the text a conversion returns, Markdown with its front matter and
\* back matter or Org with its preamble, holds no character of the list
\* of control and zero-width characters.
C23_NoSpecialCharInOutput ==
    out.pc = "returned" => Chars(out.text) \cap SpecialChars = {}


\* ================================================= rejection at the boundary
ErrorReplies(queue, r) ==
    {i \in 1..Len(queue) : /\ queue[i].forReq = r
                            /\ queue[i].error
                            /\ queue[i].requestId = generateRequestId(r)}

Replied(w) ==
    w.late \/ \E i \in 1..Len(w.calls) : w.calls[i] = "reply"

\* C25: a request whose tab content could not be captured is answered with an
\* error reply that carries the request's id: the reply is on its way to the
\* initiator or has reached the initiator's wait; the failure is never only
\* written to the console.
C25_CaptureFailureIsReplied ==
    \A r \in 1..MaxReqs :
        req[r].captureFailed =>
            \/ ErrorReplies(rqOff, r) # {}
            \/ ErrorReplies(rqSW, r) # {}
            \/ Replied(swWait[r])
            \/ Replied(offWait[r])


\* ===================================================== claims about copying
CopyReturned == "text" \in DOMAIN cb /\ cb.pc = "done"

\* C26: the clipboard API is tried first; the textarea technique is tried
\* only when the clipboard API is missing or its call threw; false is returned
\* only when no tier copied, and true exactly when a tier copied.
C26_TiersAndResult ==
    CopyReturned =>
        /\ cb.hasClipboard => "clipboard" \in cb.tried
        /\ "execCommand" \in cb.tried => (~cb.hasClipboard \/ ~cb.writeResolves)
        /\ cb.result = "false" => cb.copied = {}
        /\ cb.result = "true" <=> cb.copied # {}


\* ========================================== claims about fenced code blocks
BlockEmitted == "block" \in DOMAIN fc

\* The longest run of 3 or more fence characters a line of the body starts
\* with, 0 when there is none.
LongestRun(body) ==
    LET runs == FenceMatches(body)
    IN  IF runs = <<>> THEN 0 ELSE Max({runs[i] : i \in DOMAIN runs})

\* C30: every fenced code block emitted, by the rule for PRE with CODE and by
\* the rule for a bare PRE, has a fence of at least 3 characters that is one
\* character longer than the longest run of 3 or more fence characters in
\* its body, so that no line of the body closes the fence.
C30_FenceOutgrowsBody ==
    BlockEmitted =>
        /\ fc.block.fence >= 3
        /\ LongestRun(fc.block.body) >= 3 =>
               fc.block.fence = LongestRun(fc.block.body) + 1


\* ============================================ claims about the context menu
\* C31: a selection action of the context menu on a page that has a selection
\* converts the selected fragment, in the Chrome topology as in the Firefox
\* topology.
C31_SelectionIsConverted ==
    (cm.pc = "menu" /\ cm.item \in SelectionItems /\ cm.page.selection # "") =>
        \A t \in Topologies :
            cm.run[t].pc = "done" => cm.run[t].content = SelectedContent(cm.page.selection)


\* ========================================== claims about getImageFilename
\* C32: for every base64 data URI, whatever its payload holds, "/" and "?"
\* included, getImageFilename returns the image prefix followed by
\* image.<subtype>.
C32_DataUriName ==
    ("name" \in DOMAIN inm) =>
        inm.name = ImagePrefix(inm.options, inm.prependFilePath)
                       \o <<"image", ".", inm.src[4]>>


\* ============================================ claims about resolved names
\* C33: once preDownloadImages has fetched every image and replaced the
\* placeholder extensions by the ones of the fetched types, the filenames of
\* the manifest it returns are pairwise distinct.
C33_ResolvedNamesDistinct ==
    (PreDownloads /\ cvResult = "ready") =>
        \A x, y \in DOMAIN newImageList :
            x # y => newImageList[x] # newImageList[y]


\* ================================================= claims about meta tags
\* The meta tags visited so far that carry the key and a content.
TagsWithKey(key) ==
    SelectSeq(md.seen, LAMBDA tag : tag[1] = key /\ tag[2] # "")

\* C34: a meta tag never changes a field the article already has, whatever
\* the field's value, and of several meta tags with one key the first
\* determines the value.
C34_MetaNeverOverwrites ==
    ("tags" \in DOMAIN md) =>
        /\ \A key \in DOMAIN md.parsed : md.article[key] = md.parsed[key]
        /\ \A key \in MetaKeys \ DOMAIN md.parsed :
               TagsWithKey(key) # <<>> =>
                   /\ key \in DOMAIN md.article
                   /\ md.article[key] = Head(TagsWithKey(key))[2]


\* ================================================ claims about cleanup order
\* The downloads the offscreen document started itself through the platform.
WorkerStarted(j) == job[j].kind = "worker" /\ job[j].id # 0

\* C35: a download started by the offscreen document ends with no record in
\* activeDownloads and with its object URL released, whether the platform's
\* terminal event reached the service worker before or after the
\* download-complete message.
C35_CleanupInAnyOrder ==
    \A j \in 1..MaxJobs :
        (WorkerStarted(j) /\ Terminal(job[j].id) /\ Quiescent) =>
            /\ ~MapHas(activeDownloads, job[j].id)
            /\ ReleaseCalls(job[j].url) >= 1


\* ================================== claims about the offscreen document
\* C36: under every interleaving of requests that call
\* ensureOffscreenDocumentExists, createDocument is never called while a
\* document exists or is being created, and no request fails because of a
\* second creation.
C36_CreatedAtMostOnce ==
    ("caller" \in DOMAIN oc) =>
        /\ \A i \in 1..Len(oc.attempts) : oc.attempts[i] = "none"
        /\ \A c \in 1..MaxCallers : oc.caller[c] # "rejected"


\* ======================================== claims about listener registration
\* The messages that ask for a reply some context waits for.
AsksForReply(message) ==
    \/ message.type \in {"get-article-content", "get-tab-content", "clip"}
    \/ message.type = "process-context-menu" /\ message.action = "download"

\* The wait of the context that sent the request.
InitiatorWait(message) ==
    IF message.type = "get-tab-content" THEN offWait[message.forReq]
    ELSE IF message.type = "clip" THEN popupWait[message.forReq]
    ELSE swWait[message.forReq]

RequestsInFlight ==
    {rqSW[i] : i \in {k \in 1..Len(rqSW) : AsksForReply(rqSW[k])}}
        \cup {rqOff[i] : i \in {k \in 1..Len(rqOff) : AsksForReply(rqOff[k])}}

\* C37: in every correlated wait the reply listener is registered before
\* the request is sent: while a request is on its way, the listener of its
\* initiator is registered unless the wait has been settled already.
C37_ListenerBeforeSend ==
    \A message \in RequestsInFlight :
        \/ InitiatorWait(message).registered
        \/ InitiatorWait(message).state \in {"resolved", "rejected"}

\* A context-menu download whose offscreen request for the tab content is on
\* its way, both listeners registered.
C37_Witness ==
    \E message \in RequestsInFlight :
        /\ message.type = "get-tab-content"
        /\ offWait[message.forReq].registered /\ offWait[message.forReq].state = "pending"
        /\ swWait[message.forReq].registered /\ swWait[message.forReq].state = "pending"



\* ====================================== claims about repeated image sources
\* C38: in one conversion a source that occurs several times gets the same
\* manifest filename at every occurrence, also after another source has
\* collided with that filename: no step changes the filename of a source
\* already in the manifest, so every reference written for an occurrence
\* stays equal to the manifest's filename of its source.
C38_SameNameAtEveryOccurrence ==
    [][\A src \in DOMAIN imageList :
          src \in DOMAIN imageList' /\ imageList'[src] = imageList[src]]_vars


\* ================================== claims about the text around tokens
\* The text of a template outside its {...} tokens.
RECURSIVE Literal(_)
Literal(s) ==
    IF s = <<>> THEN <<>>
    ELSE IF Head(s) = "{" /\ \E i \in 2..Len(s) : s[i] = "}"
    THEN Literal(Drop(s, Min({i \in 2..Len(s) : s[i] = "}"})))
    ELSE <<Head(s)>> \o Literal(Tail(s))

\* The characters of a appear in b, in order.
RECURSIVE AppearsInOrder(_, _)
AppearsInOrder(a, b) ==
    IF a = <<>> THEN TRUE
    ELSE IF b = <<>> THEN FALSE
    ELSE IF Head(a) = Head(b) THEN AppearsInOrder(Tail(a), Tail(b))
    ELSE AppearsInOrder(a, Tail(b))

\* C39: textReplace changes only tokens: the template's text outside its
\* {...} tokens appears unchanged and in order in what is returned, also
\* when text with a closing brace follows a keywords token on its line.
C39_TextOutsideTokensKept ==
    tr.pc = "returned" => AppearsInOrder(Literal(tr.template), tr.string)

====
